---- MODULE Spec2Model ----
(***************************************************************************)
(* Model of the timelapser core: the activity state machine               *)
(* (activity_monitor.py), the capture-session lifecycle of                 *)
(* WebcamController (webcam_controller.py) and the create-video request    *)
(* (app.py).                                                               *)
(***************************************************************************)
EXTENDS Integers, Sequences, FiniteSets, TLC

VARIABLES
    transport,              \* "http" (_monitor_loop) or "mqtt" (_on_mqtt_message)
    last_activity_running,  \* ActivityMonitor.last_activity_running
    last_current_file,      \* ActivityMonitor.last_current_file
    ignored_patterns,       \* ActivityMonitor.ignored_patterns
    ev,                     \* the last transport event and what the monitor did with it
    pending,                \* controller callbacks the current update still has to run
    auto_mode,              \* WebcamController.auto_mode
    is_capturing,           \* WebcamController.is_capturing
    current_session_dir,    \* WebcamController.current_session_dir
    capture_thread,         \* WebcamController.capture_thread
    lock,                   \* WebcamController.lock (its holder)
    sessions,               \* the session directories under timelapse_dir
    loops,                  \* the _capture_loop threads
    now,                    \* the wall clock, in seconds
    pc,                     \* where each thread is
    arg,                    \* the argument of the call a thread is in
    n_requests,             \* HTTP requests served so far
    n_events,               \* transport events handled so far
    ffmpeg_processes,       \* WebcamController.ffmpeg_processes: session id -> process
    proc,                   \* the encoder process each thread has spawned
    n_active,               \* sessions started and not yet stopped
    ffmpeg_processes_lock,  \* WebcamController.ffmpeg_processes_lock (its holder)
    status_file,            \* video_progress.json of each directory
    readers,                \* the last frame= line read_stdout and read_stderr have read
    ret,                    \* what each thread's last call returned
    platform,               \* WebcamController.platform
    camera_cache,           \* WebcamController.camera_cache: cache key -> handle
    camera_cache_lock,      \* WebcamController.camera_cache_lock (its holder)
    camera_settings,        \* WebcamController.camera_settings['resolution']
    handles,                \* the opened VideoCapture objects of each device
    camera_dims,            \* the frame width and height each device reports
    cam,                    \* the camera call each thread is in
    temp_list_file,         \* whether frames_list.txt exists in each directory
    camera_last_used,       \* WebcamController.camera_last_used: cache key -> time
    stop_event,             \* ActivityMonitor.stop_event
    monitor_thread,         \* ActivityMonitor.monitor_thread and where its loop is
    ip_camera               \* camera_cache['ip_camera_0'], the network camera's handle

vars == <<transport, last_activity_running, last_current_file, ignored_patterns, ev,
          pending, auto_mode, is_capturing, current_session_dir, capture_thread, lock,
          sessions, loops, now, pc, arg, ffmpeg_processes, proc, n_active,
          n_requests, n_events, ffmpeg_processes_lock, status_file, readers, ret,
          platform, camera_cache, camera_cache_lock, camera_settings, handles,
          camera_dims, cam, temp_list_file, camera_last_used, stop_event,
          monitor_thread, ip_camera>>

monitorVars == <<last_activity_running, last_current_file, ev, pending>>
controllerVars == <<auto_mode, is_capturing, current_session_dir, capture_thread,
                    sessions, n_active>>

(***************************************************************************)
(* Bounds                                                                  *)
(***************************************************************************)
MaxTime == 1        \* the clock runs over StartTime .. StartTime + MaxTime
MaxFrames == 1      \* frames one capture loop numbers before it only idles
MaxLoops == 2       \* capture-loop threads that can exist at once
MaxRequests == 3    \* HTTP requests served in one run
MaxEvents == 3      \* transport events handled in one run
MaxChanges == 1     \* changes of the settings (POST /state) in one run
MaxStored == 2      \* frames of a session stored by an earlier run
MaxJobs == 2        \* create-video and cancel-video requests in one run
MaxCamera == 1      \* the video devices are numbered 0 .. MaxCamera
MaxCaptures == 2    \* frames the capture loop of a long session numbers
MaxIdle == 1        \* times the cameras stay unused for longer than the timeout

(***************************************************************************)
(* Values                                                                  *)
(***************************************************************************)
None == <<"None">>                  \* Python's None, where a string is expected
NoDir == -1                         \* current_session_dir = None
NoThread == 0                       \* capture_thread = None
interval == 5                       \* WebcamController.interval
StartTime == interval + 1           \* time.time() is far past one interval
Times == StartTime .. (StartTime + MaxTime)
SessionIds == Times                 \* timelapse_<%Y%m%d_%H%M%S>: one id per second
LoopIds == 1 .. MaxLoops
Outside == 0                        \* a directory that is not under timelapse_dir
Dirs == SessionIds \cup {Outside}
MonitorThread == "mon"
RequestThreads == {"r1", "r2"}
Threads == {MonitorThread} \cup RequestThreads

status_property == "is_running"
current_file_property == "current_file"

\* File names and ignore patterns are strings, modelled as sequences of characters.
Files == { <<"a">>, <<"b">>, <<"d", "a">>, <<"[", "b">> }
PatternLists == { <<>>, << <<"d">> >>, << <<"[">>, <<".", "a">> >> }

\* Status payloads: JSON objects in which either key may be missing.
Payloads ==
    { [is_running |-> r, current_file |-> f] : r \in BOOLEAN, f \in Files \cup {None} }
        \cup { [current_file |-> <<"a">>] }
        \cup { [is_running |-> TRUE] }

\* dict.get(key, default)
Get(d, key, default) == IF key \in DOMAIN d THEN d[key] ELSE default

\* Python truthiness of an optional string
Truthy(s) == s # None /\ s # <<>>

(***************************************************************************)
(* is_ignored_activity                                                     *)
(***************************************************************************)
\* re.compile fails on an unterminated character set
ReCompiles(p) == \A i \in 1 .. Len(p) : p[i] # "["

\* re.search(p, s) for patterns of literals and "." (any character)
ReSearch(p, s) ==
    \E off \in 0 .. (Len(s) - Len(p)) :
        \A j \in 1 .. Len(p) : p[j] = "." \/ p[j] = s[off + j]

\* p in s
SubstringIn(p, s) ==
    \E off \in 0 .. (Len(s) - Len(p)) : \A j \in 1 .. Len(p) : p[j] = s[off + j]

PatternMatches(p, s) == IF ReCompiles(p) THEN ReSearch(p, s) ELSE SubstringIn(p, s)

RECURSIVE AnyPatternMatches(_, _)
AnyPatternMatches(patterns, s) ==
    IF patterns = <<>> THEN FALSE
    ELSE IF PatternMatches(Head(patterns), s) THEN TRUE
    ELSE AnyPatternMatches(Tail(patterns), s)

is_ignored_activity(patterns, current_file) ==
    IF ~Truthy(current_file) \/ patterns = <<>> THEN FALSE
    ELSE AnyPatternMatches(patterns, current_file)

(***************************************************************************)
(* _handle_status_update: the decision, as the new memory of the monitor   *)
(* and the controller callbacks it makes, in order.                        *)
(***************************************************************************)
StopCall == [op |-> "activity_stopped", file |-> None]
StartCall(f) == [op |-> "activity_started", file |-> f]

Decision(running, file, calls) == [running |-> running, file |-> file, calls |-> calls]

\* lines 270-276
NotRunningRule_NoClear(lar, lcf) ==
    Decision(FALSE, lcf, IF lar THEN <<StopCall>> ELSE <<>>)

NotRunningRule(lar, lcf) ==
    Decision(FALSE, None, IF lar THEN <<StopCall>> ELSE <<>>)

\* lines 285-290; stored is last_current_file as line 283 has just set it
IgnoredRule_NoStop(lar, stored) ==
    Decision(lar, stored, <<>>)

IgnoredRule(lar, stored) ==
    IF lar THEN Decision(FALSE, stored, <<StopCall>>)
    ELSE Decision(lar, stored, <<>>)

\* lines 291-302; the comparison of line 298 reads last_current_file after line 283
\* has overwritten it with current_file
RunningRule_NoFile(lar, current_file, stored) ==
    IF ~lar THEN Decision(TRUE, stored, <<StartCall(None)>>)
    ELSE Decision(lar, stored, <<>>)

RunningRule(lar, current_file, stored) ==
    IF ~lar THEN Decision(TRUE, stored, <<StartCall(current_file)>>)
    ELSE IF current_file # stored
         THEN Decision(lar, stored, <<StopCall, StartCall(current_file)>>)
         ELSE Decision(lar, stored, <<>>)

StatusRunning_DefaultTrue(status) == Get(status, status_property, TRUE)

\* status.get(self.status_property, False)
StatusRunning(status) == Get(status, status_property, FALSE)
StatusFile(status) == Get(status, current_file_property, None)
StatusIgnored(patterns, status) ==
    StatusRunning(status) /\ Truthy(StatusFile(status))
        /\ is_ignored_activity(patterns, StatusFile(status))

handle_status_update(status, patterns, lar, lcf) ==
    LET is_running == StatusRunning(status)
        current_file == StatusFile(status)
    IN  IF ~is_running THEN NotRunningRule(lar, lcf)
        ELSE IF StatusIgnored(patterns, status) THEN IgnoredRule(lar, current_file)
        ELSE RunningRule(lar, current_file, current_file)

(***************************************************************************)
(* _on_mqtt_message: what one message does before the state machine runs.  *)
(* deliver: whether _handle_status_update is called; lar: what the handler *)
(* has made of last_activity_running by then.                              *)
(***************************************************************************)
RunningTopic == "state/running"
PatternTopic == "pattern/set/state"
Topics == {RunningTopic, PatternTopic, "other"}
Tokens == {"running", "RUNNING", "idle"}

\* str.lower()
Lower(token) == IF token = "RUNNING" THEN "running" ELSE token

NotRunningStatus == [is_running |-> FALSE, current_file |-> None]
RunningStatus(f) == [is_running |-> TRUE, current_file |-> f]

on_mqtt_message(topic, token, file, lar) ==
    IF topic = RunningTopic
    THEN IF Lower(token) # "running"
         THEN [deliver |-> TRUE, status |-> NotRunningStatus, lar |-> FALSE]
         ELSE [deliver |-> FALSE, status |-> NotRunningStatus, lar |-> TRUE]
    ELSE IF topic = PatternTopic
    THEN IF ~lar
         THEN [deliver |-> FALSE, status |-> NotRunningStatus, lar |-> lar]
         ELSE [deliver |-> TRUE, status |-> RunningStatus(file), lar |-> lar]
    ELSE [deliver |-> FALSE, status |-> NotRunningStatus, lar |-> lar]

(***************************************************************************)
(* Controller guards                                                       *)
(***************************************************************************)
\* activity_started: if self.auto_mode and not self.is_capturing
activity_started_guard_NoCheck(am, cap) == am

activity_started_guard(am, cap) == am /\ ~cap

\* activity_stopped: if self.auto_mode and self.is_capturing
activity_stopped_guard(am, cap) == am /\ cap

\* with self.lock
LockFree_NoLock(holder) == TRUE

LockFree(holder) == holder = "free"

\* with self.camera_cache_lock
CacheFree_NoLock(holder) == TRUE

CacheFree(holder) == holder = "free"

\* leaving the with block of a lock the thread holds
Unlock_Keep(holder, t) == holder

Unlock(holder, t) == IF holder = t THEN "free" ELSE holder

\* create_timelapse_video: session_id == current_session and is_capturing
video_rejected(session_id, current_session, cap) ==
    session_id = current_session /\ cap

(***************************************************************************)
(* Camera identifiers.  Strings are sequences of characters.               *)
(***************************************************************************)
Cameras == 0 .. MaxCamera
Platforms == {"Linux", "Windows", "Darwin"}

Digits == <<"0", "1", "2", "3", "4", "5", "6", "7", "8", "9">>
IsDigit(c) == \E i \in 1 .. Len(Digits) : Digits[i] = c
DigitValue(c) == (CHOOSE i \in 1 .. Len(Digits) : Digits[i] = c) - 1

\* str.isdigit()
isdigit(s) == s # <<>> /\ \A i \in 1 .. Len(s) : IsDigit(s[i])

\* int(s) of a string of digits
RECURSIVE int(_)
int(s) ==
    IF Len(s) = 1 THEN DigitValue(s[1])
    ELSE int(SubSeq(s, 1, Len(s) - 1)) * Len(Digits) + DigitValue(s[Len(s)])

\* str(n) of a natural number
RECURSIVE str(_)
str(n) ==
    IF n < Len(Digits) THEN <<Digits[n + 1]>>
    ELSE str(n \div Len(Digits)) \o <<Digits[(n % Len(Digits)) + 1]>>

\* s.startswith(p)
startswith(s, p) == Len(s) >= Len(p) /\ SubSeq(s, 1, Len(p)) = p

\* s.replace(p, '')
RECURSIVE replace(_, _)
replace(s, p) ==
    IF s = <<>> THEN <<>>
    ELSE IF startswith(s, p) THEN replace(SubSeq(s, Len(p) + 1, Len(s)), p)
    ELSE <<Head(s)>> \o replace(Tail(s), p)

\* c in s
Contains(s, c) == \E i \in 1 .. Len(s) : s[i] = c

\* s.split(c)[0]
SplitHead(s, c) ==
    IF ~Contains(s, c) THEN s
    ELSE LET i == CHOOSE k \in 1 .. Len(s) : s[k] = c /\ \A j \in 1 .. (k - 1) : s[j] # c
         IN  SubSeq(s, 1, i - 1)

DevVideo == <<"/", "d", "e", "v", "/", "v", "i", "d", "e", "o">>
CameraName == <<"c", "a", "m">>

\* A camera argument is an int, a string or None
IntId(n) == [type |-> "int", v |-> n]
StrId(s) == [type |-> "str", v |-> s]
NoCamera == [type |-> "None", v |-> 0]

selected_camera == StrId(DevVideo \o <<"0">>)

\* available_cameras as scan_cameras leaves it: device paths on Linux, device names
\* on Windows, "index:name" on macOS
available_cameras(plat) ==
    [i \in 1 .. (MaxCamera + 1) |->
        IF plat = "Linux" THEN DevVideo \o str(i - 1)
        ELSE IF plat = "Windows" THEN CameraName \o str(i - 1)
        ELSE str(i - 1) \o <<":">> \o CameraName]

\* list.index(s), and the first i whose name contains s; both count from 0
ListIndex(list, s) == (CHOOSE i \in 1 .. Len(list) :
                          list[i] = s /\ \A j \in 1 .. (i - 1) : list[j] # s) - 1
PartialIndex(list, s) == (CHOOSE i \in 1 .. Len(list) :
                             /\ SubstringIn(s, list[i])
                             /\ \A j \in 1 .. (i - 1) : ~SubstringIn(s, list[j])) - 1

\* _get_camera_index: the OpenCV index of a camera argument.  int() of what follows
\* /dev/video raises ValueError unless it is a number; the characters used here
\* have no upper case, so lower() changes nothing.
get_camera_index(camera, plat) ==
    LET camera_to_use == IF camera = NoCamera THEN selected_camera ELSE camera
        s == camera_to_use.v
        available == available_cameras(plat)
    IN  IF camera_to_use.type = "int" THEN s
        ELSE IF isdigit(s) THEN int(s)
        ELSE IF Contains(s, ":") /\ isdigit(SplitHead(s, ":")) THEN int(SplitHead(s, ":"))
        ELSE IF plat = "Linux" /\ startswith(s, DevVideo) /\ isdigit(replace(s, DevVideo))
        THEN int(replace(s, DevVideo))
        ELSE IF \E i \in 1 .. Len(available) : available[i] = s
        THEN ListIndex(available, s)
        ELSE IF plat = "Windows" /\ \E i \in 1 .. Len(available) : SubstringIn(s, available[i])
        THEN PartialIndex(available, s)
        ELSE 0

\* cache_key = str(camera_index)
cache_key(camera_index) == str(camera_index)
CacheKeys == { cache_key(n) : n \in Cameras }

\* The camera arguments requests are made with
CameraArgs ==
    { IntId(n) : n \in Cameras }
        \cup { StrId(str(n)) : n \in Cameras }
        \cup { StrId(str(n) \o <<":">> \o CameraName) : n \in Cameras }
        \cup { StrId(DevVideo \o str(n)) : n \in Cameras }
        \cup { StrId(CameraName), NoCamera }

\* Resolutions are width and height
fallback_resolutions == << <<1920, 1080>>, <<1280, 720>>, <<800, 600>>, <<640, 480>> >>
default_resolution == <<1280, 720>>
\* The devices: the size they report when opened, and the sizes they can be set to
DeviceDefault == <<320, 240>>
DeviceModes == { DeviceDefault, <<800, 600>>, <<640, 480>> }
NoResolution == <<>>

(***************************************************************************)
(* Session identifiers as requests give them: paths relative to            *)
(* timelapse_dir, modelled as sequences of components                      *)
(***************************************************************************)
\* timelapse_<timestamp>
SessionName(s) == <<"timelapse_">> \o str(s)
EmptyId == <<>>
TraversalId == <<"..", "frames">>
PrefixedTraversalId == <<"timelapse_", "..", "..", "frames">>
SessionIdArgs == { SessionName(StartTime), EmptyId, TraversalId, PrefixedTraversalId }

\* delete_session line 1326
valid_session_id(session_id) ==
    /\ session_id # <<>>
    /\ ~Contains(session_id, "..")
    /\ Head(session_id) = "timelapse_"

\* os.path.join(timelapse_dir, session_id) as the file system resolves it: a path
\* with ".." leaves timelapse_dir; NoDir is a path that names no directory
ResolveDir(session_id) ==
    IF session_id = <<>> THEN NoDir
    ELSE IF Contains(session_id, "..") THEN Outside
    ELSE IF Head(session_id) = "timelapse_" /\ isdigit(Tail(session_id))
             /\ int(Tail(session_id)) \in SessionIds
    THEN int(Tail(session_id))
    ELSE NoDir

(***************************************************************************)
(* Initial state: the controller and the monitor as constructed            *)
(***************************************************************************)
\* finals: the captures stop_timelapse has attempted, each with its fast_mode
\* argument and whether it gave a frame
NoArg == [activity_file |-> None, auto_mode |-> "None", session_id |-> NoDir,
          noop |-> FALSE, job |-> 0, total_frames |-> 0, raw |-> None, finals |-> <<>>,
          start_time |-> 0]
NoEvent ==
    [kind |-> "none", delivered |-> FALSE, running |-> FALSE, file |-> None,
     ignored |-> FALSE, prevRunning |-> FALSE, entryRunning |-> FALSE,
     prevFile |-> None, prevCapturing |-> FALSE, prevAuto |-> FALSE, calls |-> <<>>,
     missing |-> FALSE, skipped |-> 0]
NoSession == [exists |-> FALSE, frames |-> {}, activity_file |-> None]

\* A frame file: frame_<n>_<timestamp>[_final].jpg
Frame(n, ts, final) == [n |-> n, ts |-> ts, final |-> final]

\* A directory holding the frames of an earlier run
StoredSession ==
    [exists |-> TRUE, frames |-> { Frame(n, 0, FALSE) : n \in 1 .. MaxStored },
     activity_file |-> None]

\* timelapse_dir as a fresh installation finds it, and with one session kept from
\* an earlier run
EmptyDisk == [s \in Dirs |-> IF s = Outside THEN StoredSession ELSE NoSession]
StoredDisk == [s \in Dirs |-> IF s \in {Outside, StartTime} THEN StoredSession
                               ELSE NoSession]

\* ffmpeg_processes[session_id]: process is the thread whose create_video spawned it
NoEntry == [process |-> "none", job |-> 0, cancelled |-> FALSE, start_time |-> 0]
\* video_progress.json: its status, progress and start_time keys, and the job whose
\* write it is
Record(status, progress, job, start_time) ==
    [status |-> status, progress |-> progress, job |-> job, start_time |-> start_time]
NoRecord == Record("none", 0, 0, 0)
\* write_progress_data (lines 859-882): a status file that is already there gives
\* its start_time to the data written over it
write_progress_data_Own(existing, data) == data

write_progress_data(existing, data) ==
    IF existing # NoRecord THEN [data EXCEPT !.start_time = existing.start_time]
    ELSE data
NoReaders == [stdout |-> 0, stderr |-> 0]

\* What create_video returns: False, the success dict or the cancelled dict; what
\* cancel_video returns: True or False
Result(op, value) == [op |-> op, value |-> value]
NoResult == Result("none", "none")
\* The camera call of a thread: the method, its argument, the index it resolved to,
\* while _set_camera_resolution runs its candidates, how many it has tried, the
\* first one whose test read gave a frame (0: none yet) and the result, and whether
\* the handle the caller reads through has been released under it
NoCall == [op |-> "none", camera |-> NoCamera, camera_index |-> 0, candidates |-> <<>>,
           tried |-> 0, first_ok |-> 0, result |-> NoResolution, released |-> FALSE,
           current_time |-> 0]
\* The call once _get_camera has returned the handle
Holding(call) == [NoCall EXCEPT !.op = call.op, !.camera = call.camera,
                                !.camera_index = call.camera_index]
\* camera_last_used has no entry for the key
NoUse == -1
\* WebcamController.camera_cache_timeout, in seconds
camera_cache_timeout == 30
\* 'last_frame': None
NoFrame == 0
\* No network camera: nothing in available_cameras, nothing in the cache.  listed:
\* ip_camera_0 is in available_cameras; cached: it is a key of camera_cache;
\* last_used: its entry of camera_last_used; requests: the GETs sent to its url
NoIpCamera == [listed |-> FALSE, cached |-> FALSE, last_frame |-> NoFrame,
               last_frame_time |-> 0, last_used |-> NoUse, requests |-> 0]
\* monitor_thread = None.  lost: the connection has been lost and the reconnect
\* delay has not been waited since; started: of start() and stop(), the one called
\* last is start(); joining: stop() is waiting in join
NoMonitor == [target |-> "none", alive |-> FALSE, pc |-> "none", lost |-> FALSE,
              started |-> FALSE, joining |-> FALSE]
DeadLoop == [alive |-> FALSE, pc |-> "check", frame_count |-> 0, last_capture_time |-> 0,
             out_dir |-> NoDir, out_ts |-> 0]

InitState(disk) ==
    /\ transport \in {"http", "mqtt"}
    /\ last_activity_running = FALSE
    /\ last_current_file = None
    /\ ignored_patterns \in PatternLists
    /\ ev = NoEvent
    /\ pending = <<>>
    /\ auto_mode \in BOOLEAN
    /\ is_capturing = FALSE
    /\ current_session_dir = NoDir
    /\ capture_thread = NoThread
    /\ lock = "free"
    /\ sessions = disk
    /\ loops = [l \in LoopIds |-> DeadLoop]
    /\ now = StartTime
    /\ pc = [t \in Threads |-> "idle"]
    /\ arg = [t \in Threads |-> NoArg]
    /\ n_requests = 0
    /\ n_events = 0
    /\ ffmpeg_processes = [s \in Dirs |-> NoEntry]
    /\ proc = [t \in Threads |-> "none"]
    /\ n_active = 0
    /\ ffmpeg_processes_lock = "free"
    /\ status_file = [s \in Dirs |-> NoRecord]
    /\ readers = [t \in Threads |-> NoReaders]
    /\ ret = [t \in Threads |-> NoResult]
    /\ camera_cache = [k \in CacheKeys |-> "absent"]
    /\ camera_cache_lock = "free"
    /\ camera_settings = NoResolution
    /\ handles = [d \in Cameras |-> 0]
    /\ camera_dims = [d \in Cameras |-> DeviceDefault]
    /\ cam = [t \in Threads |-> NoCall]
    /\ temp_list_file = [s \in Dirs |-> FALSE]
    /\ camera_last_used = [k \in CacheKeys |-> NoUse]
    /\ stop_event = FALSE
    /\ monitor_thread = NoMonitor
    /\ ip_camera = NoIpCamera

Init == InitState(EmptyDisk) /\ platform = "Linux"

(***************************************************************************)
(* Transport events                                                        *)
(***************************************************************************)
MonitorIdle == pc[MonitorThread] = "idle" /\ pending = <<>>

Event(kind, delivered, status, entry, d) ==
    [kind |-> kind, delivered |-> delivered,
     running |-> delivered /\ StatusRunning(status),
     file |-> IF delivered THEN StatusFile(status) ELSE None,
     ignored |-> delivered /\ StatusIgnored(ignored_patterns, status),
     prevRunning |-> last_activity_running, entryRunning |-> entry,
     prevFile |-> last_current_file, prevCapturing |-> is_capturing,
     prevAuto |-> auto_mode, calls |-> d.calls,
     missing |-> delivered /\ status_property \notin DOMAIN status,
     skipped |-> ev.skipped]

\* _monitor_loop: one poll answered with HTTP 200 and this JSON object
PollStatus(status) ==
    /\ transport = "http"
    /\ MonitorIdle
    /\ n_events < MaxEvents
    /\ n_events' = n_events + 1
    /\ LET d == handle_status_update(status, ignored_patterns,
                                     last_activity_running, last_current_file)
       IN  /\ last_activity_running' = d.running
           /\ last_current_file' = d.file
           /\ pending' = d.calls
           /\ ev' = Event("http", TRUE, status, last_activity_running, d)
    /\ UNCHANGED <<transport, ignored_patterns, auto_mode, is_capturing,
                   current_session_dir, capture_thread, lock, sessions, loops, now,
                   pc, arg, n_requests, ffmpeg_processes, proc, n_active,
                   ffmpeg_processes_lock, status_file, readers, ret, platform,
                   camera_cache, camera_cache_lock, camera_settings, handles,
                   camera_dims, cam, temp_list_file, camera_last_used, stop_event,
                   monitor_thread, ip_camera>>

\* lines 343-348: a poll that gave no status is logged; the machine keeps what it
\* remembers
Skipped_Forget(running, file) == [running |-> FALSE, file |-> None]

Skipped(running, file) == [running |-> running, file |-> file]

\* _monitor_loop: one poll answered with another code than 200, or not answered,
\* or answered with a body that is no JSON; ev counts the polls skipped so far
PollFails(failure) ==
    /\ transport = "http"
    /\ MonitorIdle
    /\ n_events < MaxEvents
    /\ n_events' = n_events + 1
    /\ LET d == Skipped(last_activity_running, last_current_file)
       IN  /\ last_activity_running' = d.running
           /\ last_current_file' = d.file
    /\ ev' = [NoEvent EXCEPT !.kind = "http",
                             !.prevRunning = last_activity_running,
                             !.prevFile = last_current_file,
                             !.prevCapturing = is_capturing,
                             !.prevAuto = auto_mode,
                             !.skipped = ev.skipped + 1]
    /\ UNCHANGED <<transport, ignored_patterns, pending, auto_mode, is_capturing,
                   current_session_dir, capture_thread, lock, sessions, loops, now,
                   pc, arg, n_requests, ffmpeg_processes, proc, n_active,
                   ffmpeg_processes_lock, status_file, readers, ret, platform,
                   camera_cache, camera_cache_lock, camera_settings, handles,
                   camera_dims, cam, temp_list_file, camera_last_used, stop_event,
                   monitor_thread, ip_camera>>

\* _on_mqtt_message: one message of the broker
MqttMessage(topic, token, file) ==
    /\ transport = "mqtt"
    /\ MonitorIdle
    /\ n_events < MaxEvents
    /\ n_events' = n_events + 1
    /\ LET m == on_mqtt_message(topic, token, file, last_activity_running)
           d == IF m.deliver
                THEN handle_status_update(m.status, ignored_patterns, m.lar,
                                          last_current_file)
                ELSE Decision(m.lar, last_current_file, <<>>)
           kind == IF topic = RunningTopic
                   THEN IF Lower(token) = "running" THEN "mqtt_running"
                        ELSE "mqtt_not_running"
                   ELSE IF topic = PatternTopic THEN "mqtt_pattern" ELSE "mqtt_other"
       IN  /\ last_activity_running' = d.running
           /\ last_current_file' = d.file
           /\ pending' = d.calls
           /\ ev' = Event(kind, m.deliver, m.status, m.lar, d)
    /\ UNCHANGED <<transport, ignored_patterns, auto_mode, is_capturing,
                   current_session_dir, capture_thread, lock, sessions, loops, now,
                   pc, arg, n_requests, ffmpeg_processes, proc, n_active,
                   ffmpeg_processes_lock, status_file, readers, ret, platform,
                   camera_cache, camera_cache_lock, camera_settings, handles,
                   camera_dims, cam, temp_list_file, camera_last_used, stop_event,
                   monitor_thread, ip_camera>>

\* The monitor's thread makes the next callback of the update it is handling:
\* activity_started (lines 1310-1314) or activity_stopped (lines 1316-1320).
\* noop records that the callback was made while already capturing, or while idle.
MonitorCall ==
    /\ pc[MonitorThread] = "idle"
    /\ pending # <<>>
    /\ pending' = Tail(pending)
    /\ LET c == Head(pending)
       IN  IF c.op = "activity_started"
           THEN IF activity_started_guard(auto_mode, is_capturing)
                THEN /\ pc' = [pc EXCEPT ![MonitorThread] = "st_enter"]
                     /\ arg' = [arg EXCEPT ![MonitorThread] =
                                   [NoArg EXCEPT !.activity_file = c.file,
                                                 !.noop = is_capturing]]
                ELSE UNCHANGED <<pc, arg>>
           ELSE IF activity_stopped_guard(auto_mode, is_capturing)
                THEN /\ pc' = [pc EXCEPT ![MonitorThread] = "sp_enter"]
                     /\ arg' = [arg EXCEPT ![MonitorThread] =
                                   [NoArg EXCEPT !.noop = ~is_capturing]]
                ELSE UNCHANGED <<pc, arg>>
    /\ UNCHANGED <<transport, last_activity_running, last_current_file,
                   ignored_patterns, ev, auto_mode, is_capturing,
                   current_session_dir, capture_thread, lock, sessions, loops, now,
                   n_requests, n_events, ffmpeg_processes, proc, n_active,
                   ffmpeg_processes_lock, status_file, readers, ret, platform,
                   camera_cache, camera_cache_lock, camera_settings, handles,
                   camera_dims, cam, temp_list_file, camera_last_used, stop_event,
                   monitor_thread, ip_camera>>

\* The controller's callbacks as an exposed interface: any caller, any moment
Calls == {StopCall, StartCall(None), StartCall(<<"a">>)}

Callback(c) ==
    /\ MonitorIdle
    /\ n_requests < MaxRequests
    /\ n_requests' = n_requests + 1
    /\ pending' = <<c>>
    /\ UNCHANGED <<transport, last_activity_running, last_current_file,
                   ignored_patterns, ev, auto_mode, is_capturing,
                   current_session_dir, capture_thread, lock, sessions, loops, now,
                   pc, arg, n_events, ffmpeg_processes, proc, n_active,
                   ffmpeg_processes_lock, status_file, readers, ret, platform,
                   camera_cache, camera_cache_lock, camera_settings, handles,
                   camera_dims, cam, temp_list_file, camera_last_used, stop_event,
                   monitor_thread, ip_camera>>

(***************************************************************************)
(* HTTP requests (app.py); Flask serves each on a thread of its own        *)
(***************************************************************************)
AutoModeArgs == {"None", "True", "False"}

\* POST /start
RequestStart(t, am) ==
    /\ pc[t] = "idle"
    /\ n_requests < MaxRequests
    /\ n_requests' = n_requests + 1
    /\ pc' = [pc EXCEPT ![t] = "st_enter"]
    /\ arg' = [arg EXCEPT ![t] = [NoArg EXCEPT !.auto_mode = am]]
    /\ UNCHANGED <<transport, last_activity_running, last_current_file,
                   ignored_patterns, ev, pending, auto_mode, is_capturing,
                   current_session_dir, capture_thread, lock, sessions, loops, now,
                   n_events, ffmpeg_processes, proc, n_active, ffmpeg_processes_lock,
                   status_file, readers, ret, platform, camera_cache,
                   camera_cache_lock, camera_settings, handles, camera_dims, cam,
                   temp_list_file, camera_last_used, stop_event, monitor_thread,
                   ip_camera>>

\* POST /stop
RequestStop(t) ==
    /\ pc[t] = "idle"
    /\ n_requests < MaxRequests
    /\ n_requests' = n_requests + 1
    /\ pc' = [pc EXCEPT ![t] = "sp_enter"]
    /\ arg' = [arg EXCEPT ![t] = NoArg]
    /\ UNCHANGED <<transport, last_activity_running, last_current_file,
                   ignored_patterns, ev, pending, auto_mode, is_capturing,
                   current_session_dir, capture_thread, lock, sessions, loops, now,
                   n_events, ffmpeg_processes, proc, n_active, ffmpeg_processes_lock,
                   status_file, readers, ret, platform, camera_cache,
                   camera_cache_lock, camera_settings, handles, camera_dims, cam,
                   temp_list_file, camera_last_used, stop_event, monitor_thread,
                   ip_camera>>

\* POST /create_video
RequestCreateVideo(t, session_id) ==
    /\ pc[t] = "idle"
    /\ n_requests < MaxRequests
    /\ n_requests' = n_requests + 1
    /\ pc' = [pc EXCEPT ![t] = "cv_check"]
    /\ arg' = [arg EXCEPT ![t] = [NoArg EXCEPT !.raw = session_id,
                                                !.session_id = ResolveDir(session_id),
                                                !.job = n_requests + 1]]
    /\ UNCHANGED <<transport, last_activity_running, last_current_file,
                   ignored_patterns, ev, pending, auto_mode, is_capturing,
                   current_session_dir, capture_thread, lock, sessions, loops, now,
                   n_events, ffmpeg_processes, proc, n_active, ffmpeg_processes_lock,
                   status_file, readers, ret, platform, camera_cache,
                   camera_cache_lock, camera_settings, handles, camera_dims, cam,
                   temp_list_file, camera_last_used, stop_event, monitor_thread,
                   ip_camera>>

\* POST /state with auto_mode and ignored_patterns
ManageState(am, patterns) ==
    /\ n_requests < MaxChanges
    /\ n_requests' = n_requests + 1
    /\ auto_mode' = am
    /\ ignored_patterns' = patterns
    /\ <<am, patterns>> # <<auto_mode, ignored_patterns>>
    /\ UNCHANGED <<transport, last_activity_running, last_current_file, ev, pending,
                   is_capturing, current_session_dir, capture_thread, lock, sessions,
                   loops, now, pc, arg, n_events, ffmpeg_processes, proc, n_active,
                   ffmpeg_processes_lock, status_file, readers, ret, platform,
                   camera_cache, camera_cache_lock, camera_settings, handles,
                   camera_dims, cam, temp_list_file, camera_last_used, stop_event,
                   monitor_thread, ip_camera>>

(***************************************************************************)
(* start_timelapse                                                         *)
(***************************************************************************)
Return(t) ==
    /\ pc' = [pc EXCEPT ![t] = "idle"]
    /\ arg' = [arg EXCEPT ![t] = NoArg]

Returns(t, value) ==
    /\ Return(t)
    /\ ret' = [ret EXCEPT ![t] = value]

FreeLoops == { l \in LoopIds : ~loops[l].alive }

\* lines 247-258: take the lock, refuse when capturing, apply the settings
StartEnter(t) ==
    /\ pc[t] = "st_enter"
    /\ LockFree(lock)
    /\ IF is_capturing
       THEN /\ Return(t)
            /\ UNCHANGED <<lock, auto_mode>>
       ELSE /\ lock' = t
            /\ pc' = [pc EXCEPT ![t] = "st_mkdir"]
            /\ auto_mode' = IF arg[t].auto_mode = "None" THEN auto_mode
                            ELSE arg[t].auto_mode = "True"
            /\ UNCHANGED arg
    /\ UNCHANGED <<transport, last_activity_running, last_current_file,
                   ignored_patterns, ev, pending, is_capturing, current_session_dir,
                   capture_thread, sessions, loops, now, n_requests, n_events,
                   ffmpeg_processes, proc, n_active, ffmpeg_processes_lock,
                   status_file, readers, ret, platform, camera_cache,
                   camera_cache_lock, camera_settings, handles, camera_dims, cam,
                   temp_list_file, camera_last_used, stop_event, monitor_thread,
                   ip_camera>>

\* lines 260-279: the session directory of this second, and its session_info.json
StartMkdir(t) ==
    /\ pc[t] = "st_mkdir"
    /\ current_session_dir' = now
    /\ sessions' = [sessions EXCEPT ![now] =
                       [exists |-> TRUE, frames |-> @.frames,
                        activity_file |-> IF Truthy(arg[t].activity_file)
                                          THEN arg[t].activity_file ELSE None]]
    /\ pc' = [pc EXCEPT ![t] = "st_run"]
    /\ UNCHANGED <<transport, last_activity_running, last_current_file,
                   ignored_patterns, ev, pending, auto_mode, is_capturing,
                   capture_thread, lock, loops, now, arg, n_requests, n_events,
                   ffmpeg_processes, proc, n_active, ffmpeg_processes_lock,
                   status_file, readers, ret, platform, camera_cache,
                   camera_cache_lock, camera_settings, handles, camera_dims, cam,
                   temp_list_file, camera_last_used, stop_event, monitor_thread,
                   ip_camera>>

\* lines 281-288: is_capturing, the capture thread, release the lock
StartRun(t) ==
    /\ pc[t] = "st_run"
    /\ FreeLoops # {}
    /\ LET l == CHOOSE x \in FreeLoops : \A y \in FreeLoops : x <= y
       IN  /\ loops' = [loops EXCEPT ![l] = [DeadLoop EXCEPT !.alive = TRUE]]
           /\ capture_thread' = l
    /\ is_capturing' = TRUE
    /\ n_active' = n_active + 1
    /\ lock' = Unlock(lock, t)
    /\ Return(t)
    /\ UNCHANGED <<transport, last_activity_running, last_current_file,
                   ignored_patterns, ev, pending, auto_mode, current_session_dir,
                   sessions, now, n_requests, n_events, ffmpeg_processes, proc,
                   ffmpeg_processes_lock, status_file, readers, ret, platform,
                   camera_cache, camera_cache_lock, camera_settings, handles,
                   camera_dims, cam, temp_list_file, camera_last_used, stop_event,
                   monitor_thread, ip_camera>>

(***************************************************************************)
(* stop_timelapse                                                          *)
(***************************************************************************)
\* lines 292-295
StopEnter(t) ==
    /\ pc[t] = "sp_enter"
    /\ LockFree(lock)
    /\ IF ~is_capturing
       THEN /\ Returns(t, Result("stop_timelapse", "False"))
            /\ UNCHANGED lock
       ELSE /\ lock' = t
            /\ pc' = [pc EXCEPT ![t] = "sp_final"]
            /\ UNCHANGED <<arg, ret>>
    /\ UNCHANGED <<transport, last_activity_running, last_current_file,
                   ignored_patterns, ev, pending, auto_mode, is_capturing,
                   current_session_dir, capture_thread, sessions, loops, now,
                   n_requests, n_events, ffmpeg_processes, proc, n_active,
                   ffmpeg_processes_lock, status_file, readers, platform,
                   camera_cache, camera_cache_lock, camera_settings, handles,
                   camera_dims, cam, temp_list_file, camera_last_used, stop_event,
                   monitor_thread, ip_camera>>

\* lines 297-311: the final frame; a failed capture is logged.  The capture goes
\* through _get_camera, which takes camera_cache_lock (line 469)
StopFinal(t, ok) ==
    /\ pc[t] = "sp_final"
    /\ CacheFree(camera_cache_lock)
    /\ IF current_session_dir # NoDir /\ ok
       THEN LET dir == current_session_dir
                frame_count == Cardinality(sessions[dir].frames) + 1
            IN  sessions' = [sessions EXCEPT ![dir].frames =
                                @ \cup {Frame(frame_count, now, TRUE)}]
       ELSE UNCHANGED sessions
    /\ arg' = [arg EXCEPT ![t].finals =
                  IF current_session_dir # NoDir
                  THEN Append(@, [fast_mode |-> FALSE, ok |-> ok]) ELSE @]
    /\ pc' = [pc EXCEPT ![t] = "sp_clear"]
    /\ UNCHANGED <<transport, last_activity_running, last_current_file,
                   ignored_patterns, ev, pending, auto_mode, is_capturing,
                   current_session_dir, capture_thread, lock, loops, now, n_requests,
                   n_events, ffmpeg_processes, proc, n_active, ffmpeg_processes_lock,
                   status_file, readers, ret, platform, camera_cache,
                   camera_cache_lock, camera_settings, handles, camera_dims, cam,
                   temp_list_file, camera_last_used, stop_event, monitor_thread,
                   ip_camera>>

\* line 313
StopClear(t) ==
    /\ pc[t] = "sp_clear"
    /\ is_capturing' = FALSE
    /\ n_active' = n_active - 1
    /\ pc' = [pc EXCEPT ![t] = "sp_join"]
    /\ UNCHANGED <<transport, last_activity_running, last_current_file,
                   ignored_patterns, ev, pending, auto_mode, current_session_dir,
                   capture_thread, lock, sessions, loops, now, arg, n_requests,
                   n_events, ffmpeg_processes, proc, ffmpeg_processes_lock,
                   status_file, readers, ret, platform, camera_cache,
                   camera_cache_lock, camera_settings, handles, camera_dims, cam,
                   temp_list_file, camera_last_used, stop_event, monitor_thread,
                   ip_camera>>

\* lines 310-318: a final capture that raised is logged, and the result is True
StopResult_Captured(finals) ==
    IF \A i \in 1 .. Len(finals) : finals[i].ok THEN "True" ELSE "False"

StopResult(finals) == "True"

\* lines 314-318: join(timeout=2.0) returns when the thread has ended, or, with the
\* thread inside a capture, when the timeout has passed
StopJoin(t) ==
    /\ pc[t] = "sp_join"
    /\ \/ capture_thread = NoThread
       \/ ~loops[capture_thread].alive
       \/ loops[capture_thread].pc = "capture"
    /\ lock' = Unlock(lock, t)
    /\ Returns(t, Result("stop_timelapse", StopResult(arg[t].finals)))
    /\ UNCHANGED <<transport, last_activity_running, last_current_file,
                   ignored_patterns, ev, pending, auto_mode, is_capturing,
                   current_session_dir, capture_thread, sessions, loops, now,
                   n_requests, n_events, ffmpeg_processes, proc, n_active,
                   ffmpeg_processes_lock, status_file, readers, platform,
                   camera_cache, camera_cache_lock, camera_settings, handles,
                   camera_dims, cam, temp_list_file, camera_last_used, stop_event,
                   monitor_thread, ip_camera>>

(***************************************************************************)
(* _capture_loop                                                           *)
(***************************************************************************)
\* line 337: last_capture_time = current_time
LastCaptureTime_Schedule(last_capture_time, current_time) == last_capture_time + interval

LastCaptureTime(last_capture_time, current_time) == current_time

\* The loop has numbered fewer than n frames, or is about to end
Bounded(l, n) == ~is_capturing \/ loops[l].frame_count < n

\* lines 325-345: leave when capture is over; when the interval has passed, number
\* the next frame and name its file
LoopCheck(l) ==
    /\ loops[l].alive
    /\ loops[l].pc = "check"
    /\ IF ~is_capturing
       THEN loops' = [loops EXCEPT ![l] = DeadLoop]
       ELSE /\ now - loops[l].last_capture_time >= interval
            /\ loops' = [loops EXCEPT ![l] =
                            [@ EXCEPT !.pc = "capture",
                                      !.last_capture_time =
                                          LastCaptureTime(@, now),
                                      !.frame_count = @ + 1,
                                      !.out_dir = current_session_dir,
                                      !.out_ts = now]]
    /\ UNCHANGED <<transport, last_activity_running, last_current_file,
                   ignored_patterns, ev, pending, auto_mode, is_capturing,
                   current_session_dir, capture_thread, lock, sessions, now, pc, arg,
                   n_requests, n_events, ffmpeg_processes, proc, n_active,
                   ffmpeg_processes_lock, status_file, readers, ret, platform,
                   camera_cache, camera_cache_lock, camera_settings, handles,
                   camera_dims, cam, temp_list_file, camera_last_used, stop_event,
                   monitor_thread, ip_camera>>

\* lines 353-356: an exception of the capture is logged inside the while loop
AfterCapture_Raise(loop, ok) ==
    IF ok THEN [loop EXCEPT !.pc = "check", !.out_dir = NoDir, !.out_ts = 0] ELSE DeadLoop

AfterCapture(loop, ok) == [loop EXCEPT !.pc = "check", !.out_dir = NoDir, !.out_ts = 0]

\* lines 349-356: capture_single_frame writes the file, or fails and is logged
LoopCapture(l, ok) ==
    /\ CacheFree(camera_cache_lock)
    /\ loops[l].alive
    /\ loops[l].pc = "capture"
    /\ IF ok /\ loops[l].out_dir # NoDir
       THEN sessions' = [sessions EXCEPT ![loops[l].out_dir].frames =
                            @ \cup {Frame(loops[l].frame_count, loops[l].out_ts, FALSE)}]
       ELSE UNCHANGED sessions
    /\ loops' = [loops EXCEPT ![l] = AfterCapture(@, ok)]
    /\ UNCHANGED <<transport, last_activity_running, last_current_file,
                   ignored_patterns, ev, pending, auto_mode, is_capturing,
                   current_session_dir, capture_thread, lock, now, pc, arg,
                   n_requests, n_events, ffmpeg_processes, proc, n_active,
                   ffmpeg_processes_lock, status_file, readers, ret, platform,
                   camera_cache, camera_cache_lock, camera_settings, handles,
                   camera_dims, cam, temp_list_file, camera_last_used, stop_event,
                   monitor_thread, ip_camera>>

(***************************************************************************)
(* create_timelapse_video (app.py) and create_video                        *)
(***************************************************************************)
\* app.py lines 208-214: refuse an empty id and the session that is being captured
CreateVideoCheck(t) ==
    /\ pc[t] = "cv_check"
    /\ IF \/ arg[t].raw = EmptyId
          \/ video_rejected(arg[t].session_id, current_session_dir, is_capturing)
       THEN /\ Returns(t, Result("create_video", "False"))
       ELSE /\ pc' = [pc EXCEPT ![t] = "cv_frames"]
            /\ UNCHANGED <<arg, ret>>
    /\ UNCHANGED <<transport, last_activity_running, last_current_file,
                   ignored_patterns, ev, pending, auto_mode, is_capturing,
                   current_session_dir, capture_thread, lock, sessions, loops, now,
                   n_requests, n_events, ffmpeg_processes, proc, n_active,
                   ffmpeg_processes_lock, status_file, readers, platform,
                   camera_cache, camera_cache_lock, camera_settings, handles,
                   camera_dims, cam, temp_list_file, camera_last_used, stop_event,
                   monitor_thread, ip_camera>>

\* min(95, (frame_count / total_frames) * 100)
Min(a, b) == IF a <= b THEN a ELSE b
Progress(frame_count, total_frames) == Min(95, (frame_count * 100) \div total_frames)

Terminal == {"completed", "failed", "cancelled"}

\* with self.ffmpeg_processes_lock
RegistryFree(holder) == holder = "free"

\* if session_id in self.ffmpeg_processes: del self.ffmpeg_processes[session_id]
DelEntry_Keep(registry, session_id) == registry

DelEntry(registry, session_id) == [registry EXCEPT ![session_id] = NoEntry]

\* lines 820-890: the directory must exist and hold frames; the first record of the
\* job is written
CreateVideoFrames(t) ==
    /\ pc[t] = "cv_frames"
    /\ LET dir == sessions[arg[t].session_id]
       IN  IF ~dir.exists \/ dir.frames = {}
           THEN /\ Returns(t, Result("create_video", "False"))
                /\ UNCHANGED <<status_file, temp_list_file>>
           ELSE /\ pc' = [pc EXCEPT ![t] = "cv_spawn"]
                /\ arg' = [arg EXCEPT ![t].total_frames = Cardinality(dir.frames),
                                      ![t].start_time = now]
                /\ temp_list_file' = [temp_list_file EXCEPT ![arg[t].session_id] = TRUE]
                /\ status_file' = [status_file EXCEPT ![arg[t].session_id] =
                                      write_progress_data(@,
                                          Record("starting", 0, arg[t].job, now))]
                /\ UNCHANGED ret
    /\ UNCHANGED <<transport, last_activity_running, last_current_file,
                   ignored_patterns, ev, pending, auto_mode, is_capturing,
                   current_session_dir, capture_thread, lock, sessions, loops, now,
                   n_requests, n_events, ffmpeg_processes, proc, n_active,
                   ffmpeg_processes_lock, readers, platform, camera_cache,
                   camera_cache_lock, camera_settings, handles, camera_dims, cam,
                   camera_last_used, stop_event, monitor_thread, ip_camera>>

\* lines 896-916 and 977-982: start ffmpeg, enter it in the registry, start the
\* two reader threads
CreateVideoSpawn(t) ==
    /\ pc[t] = "cv_spawn"
    /\ RegistryFree(ffmpeg_processes_lock)
    /\ proc' = [proc EXCEPT ![t] = "running"]
    /\ ffmpeg_processes' = [ffmpeg_processes EXCEPT ![arg[t].session_id] =
                               [process |-> t, job |-> arg[t].job, cancelled |-> FALSE,
                                start_time |-> arg[t].start_time]]
    /\ readers' = [readers EXCEPT ![t] = NoReaders]
    /\ pc' = [pc EXCEPT ![t] = "cv_wait"]
    /\ UNCHANGED <<transport, last_activity_running, last_current_file,
                   ignored_patterns, ev, pending, auto_mode, is_capturing,
                   current_session_dir, capture_thread, lock, sessions, loops, now,
                   arg, n_requests, n_events, n_active, ffmpeg_processes_lock,
                   status_file, ret, platform, camera_cache, camera_cache_lock,
                   camera_settings, handles, camera_dims, cam, temp_list_file,
                   camera_last_used, stop_event, monitor_thread, ip_camera>>

\* ffmpeg ends by itself, with exit status 0 or with an error
ExitCodes == {0, 1}
Exited(returncode) == IF returncode = 0 THEN "exited" ELSE "crashed"

EncoderExit(t, returncode) ==
    /\ proc[t] = "running"
    /\ proc' = [proc EXCEPT ![t] = Exited(returncode)]
    /\ UNCHANGED <<transport, last_activity_running, last_current_file,
                   ignored_patterns, ev, pending, auto_mode, is_capturing,
                   current_session_dir, capture_thread, lock, sessions, loops, now,
                   pc, arg, n_requests, n_events, ffmpeg_processes, n_active,
                   ffmpeg_processes_lock, status_file, readers, ret, platform,
                   camera_cache, camera_cache_lock, camera_settings, handles,
                   camera_dims, cam, temp_list_file, camera_last_used, stop_event,
                   monitor_thread, ip_camera>>

Streams == {"stdout", "stderr"}
ReadersAlive(t) == pc[t] \in {"cv_wait", "cv_cleanup", "cv_complete", "cv_tclean"}

\* lines 923-974: read_stdout or read_stderr reads its pipe's next frame= line, with
\* frame number n, and writes the record
ReadLine(t, stream, n) ==
    /\ ReadersAlive(t)
    /\ n > readers[t][stream]
    /\ n <= arg[t].total_frames
    /\ readers' = [readers EXCEPT ![t][stream] = n]
    /\ status_file' = [status_file EXCEPT ![arg[t].session_id] =
                          write_progress_data(@,
                              Record("processing", Progress(n, arg[t].total_frames),
                                     arg[t].job, arg[t].start_time))]
    /\ UNCHANGED <<transport, last_activity_running, last_current_file,
                   ignored_patterns, ev, pending, auto_mode, is_capturing,
                   current_session_dir, capture_thread, lock, sessions, loops, now,
                   pc, arg, n_requests, n_events, ffmpeg_processes, proc, n_active,
                   ffmpeg_processes_lock, ret, platform, camera_cache,
                   camera_cache_lock, camera_settings, handles, camera_dims, cam,
                   temp_list_file, camera_last_used, stop_event, monitor_thread,
                   ip_camera>>

\* lines 986-1008: process.wait returns; the job reports cancellation when its
\* registry entry is marked cancelled
CreateVideoWait(t) ==
    /\ pc[t] = "cv_wait"
    /\ proc[t] \in {"exited", "crashed", "cancelled"}
    /\ RegistryFree(ffmpeg_processes_lock)
    /\ LET session_id == arg[t].session_id
           entry == ffmpeg_processes[session_id]
       IN  IF entry # NoEntry /\ entry.cancelled
           THEN /\ status_file' = [status_file EXCEPT ![session_id] =
                                      write_progress_data(@,
                                          Record("cancelled", 0, arg[t].job,
                                                 arg[t].start_time))]
                /\ ffmpeg_processes' = DelEntry(ffmpeg_processes, session_id)
                /\ proc' = [proc EXCEPT ![t] = "none"]
                /\ temp_list_file' = [temp_list_file EXCEPT ![session_id] = FALSE]
                /\ Returns(t, Result("create_video", "cancelled"))
           ELSE /\ pc' = [pc EXCEPT ![t] = "cv_cleanup"]
                /\ UNCHANGED <<arg, ret, status_file, ffmpeg_processes, proc,
                               temp_list_file>>
    /\ UNCHANGED <<transport, last_activity_running, last_current_file,
                   ignored_patterns, ev, pending, auto_mode, is_capturing,
                   current_session_dir, capture_thread, lock, sessions, loops, now,
                   n_requests, n_events, n_active, ffmpeg_processes_lock, readers,
                   platform, camera_cache, camera_cache_lock, camera_settings,
                   handles, camera_dims, cam, camera_last_used, stop_event,
                   monitor_thread, ip_camera>>

\* lines 1009-1018: process.wait times out; the process is killed and the record
\* says failed
CreateVideoTimeout(t) ==
    /\ pc[t] = "cv_wait"
    /\ proc[t] = "running"
    /\ proc' = [proc EXCEPT ![t] = "killed"]
    /\ status_file' = [status_file EXCEPT ![arg[t].session_id] =
                          write_progress_data(@,
                              Record("failed", 0, arg[t].job, arg[t].start_time))]
    /\ pc' = [pc EXCEPT ![t] = "cv_tclean"]
    /\ UNCHANGED <<transport, last_activity_running, last_current_file,
                   ignored_patterns, ev, pending, auto_mode, is_capturing,
                   current_session_dir, capture_thread, lock, sessions, loops, now,
                   arg, n_requests, n_events, ffmpeg_processes, n_active,
                   ffmpeg_processes_lock, readers, ret, platform, camera_cache,
                   camera_cache_lock, camera_settings, handles, camera_dims, cam,
                   temp_list_file, camera_last_used, stop_event, monitor_thread,
                   ip_camera>>

\* lines 1020-1025 and 1076-1112
CreateVideoTimeoutCleanup(t) ==
    /\ pc[t] = "cv_tclean"
    /\ RegistryFree(ffmpeg_processes_lock)
    /\ ffmpeg_processes' = DelEntry(ffmpeg_processes, arg[t].session_id)
    /\ proc' = [proc EXCEPT ![t] = "none"]
    /\ temp_list_file' = [temp_list_file EXCEPT ![arg[t].session_id] = FALSE]
    /\ Returns(t, Result("create_video", "False"))
    /\ UNCHANGED <<transport, last_activity_running, last_current_file,
                   ignored_patterns, ev, pending, auto_mode, is_capturing,
                   current_session_dir, capture_thread, lock, sessions, loops, now,
                   n_requests, n_events, n_active, ffmpeg_processes_lock,
                   status_file, readers, platform, camera_cache, camera_cache_lock,
                   camera_settings, handles, camera_dims, cam, camera_last_used,
                   stop_event, monitor_thread, ip_camera>>

\* lines 1027-1030
CreateVideoCleanup(t) ==
    /\ pc[t] = "cv_cleanup"
    /\ RegistryFree(ffmpeg_processes_lock)
    /\ ffmpeg_processes' = DelEntry(ffmpeg_processes, arg[t].session_id)
    /\ pc' = [pc EXCEPT ![t] = "cv_complete"]
    /\ UNCHANGED <<transport, last_activity_running, last_current_file,
                   ignored_patterns, ev, pending, auto_mode, is_capturing,
                   current_session_dir, capture_thread, lock, sessions, loops, now,
                   arg, n_requests, n_events, proc, n_active, ffmpeg_processes_lock,
                   status_file, readers, ret, platform, camera_cache,
                   camera_cache_lock, camera_settings, handles, camera_dims, cam,
                   temp_list_file, camera_last_used, stop_event, monitor_thread,
                   ip_camera>>

\* lines 1032-1112: the record says completed, the result is success, and the
\* finally clause removes what the registry holds for the session id
CreateVideoCompleted(t) ==
    /\ pc[t] = "cv_complete"
    /\ RegistryFree(ffmpeg_processes_lock)
    /\ status_file' = [status_file EXCEPT ![arg[t].session_id] =
                          write_progress_data(@,
                              Record("completed", 100, arg[t].job, arg[t].start_time))]
    /\ ffmpeg_processes' = DelEntry(ffmpeg_processes, arg[t].session_id)
    /\ proc' = [proc EXCEPT ![t] = "none"]
    /\ temp_list_file' = [temp_list_file EXCEPT ![arg[t].session_id] = FALSE]
    /\ Returns(t, Result("create_video", "success"))
    /\ UNCHANGED <<transport, last_activity_running, last_current_file,
                   ignored_patterns, ev, pending, auto_mode, is_capturing,
                   current_session_dir, capture_thread, lock, sessions, loops, now,
                   n_requests, n_events, n_active, ffmpeg_processes_lock, readers,
                   platform, camera_cache, camera_cache_lock, camera_settings,
                   handles, camera_dims, cam, camera_last_used, stop_event,
                   monitor_thread, ip_camera>>

\* An exception after the encoder was started (threading.Thread.start fails, say):
\* lines 1073-1075 return False without a record, and the finally clause, lines
\* 1076-1112, terminates the process, removes the entry and the frame list
Finally_NoTerminate(t, p) == p

Finally(t, p) == [p EXCEPT ![t] = "none"]

CreateVideoError(t) ==
    /\ pc[t] = "cv_wait"
    /\ RegistryFree(ffmpeg_processes_lock)
    /\ proc' = Finally(t, proc)
    /\ ffmpeg_processes' = DelEntry(ffmpeg_processes, arg[t].session_id)
    /\ temp_list_file' = [temp_list_file EXCEPT ![arg[t].session_id] = FALSE]
    /\ Returns(t, Result("create_video", "False"))
    /\ UNCHANGED <<transport, last_activity_running, last_current_file,
                   ignored_patterns, ev, pending, auto_mode, is_capturing,
                   current_session_dir, capture_thread, lock, sessions, loops, now,
                   n_requests, n_events, n_active, ffmpeg_processes_lock,
                   status_file, readers, platform, camera_cache, camera_cache_lock,
                   camera_settings, handles, camera_dims, cam, camera_last_used,
                   stop_event, monitor_thread, ip_camera>>

(***************************************************************************)
(* delete_session and get_session_frames                                   *)
(***************************************************************************)
\* DELETE /delete/<session_id>
RequestDeleteSession(t, session_id) ==
    /\ pc[t] = "idle"
    /\ n_requests < MaxRequests
    /\ n_requests' = n_requests + 1
    /\ pc' = [pc EXCEPT ![t] = "ds_enter"]
    /\ arg' = [arg EXCEPT ![t] = [NoArg EXCEPT !.raw = session_id,
                                                !.session_id = ResolveDir(session_id)]]
    /\ UNCHANGED <<transport, last_activity_running, last_current_file,
                   ignored_patterns, ev, pending, auto_mode, is_capturing,
                   current_session_dir, capture_thread, lock, sessions, loops, now,
                   n_events, ffmpeg_processes, proc, n_active, ffmpeg_processes_lock,
                   status_file, readers, ret, platform, camera_cache,
                   camera_cache_lock, camera_settings, handles, camera_dims, cam,
                   temp_list_file, camera_last_used, stop_event, monitor_thread,
                   ip_camera>>

\* lines 1322-1352: an invalid id and a directory that does not exist give False;
\* otherwise the files and the directory are removed
DeleteSession(t) ==
    /\ pc[t] = "ds_enter"
    /\ LET dir == arg[t].session_id
       IN  IF ~valid_session_id(arg[t].raw) \/ dir = NoDir \/ ~sessions[dir].exists
           THEN /\ Returns(t, Result("delete_session", "False"))
                /\ UNCHANGED <<sessions, status_file, temp_list_file>>
           ELSE /\ sessions' = [sessions EXCEPT ![dir] = NoSession]
                /\ status_file' = [status_file EXCEPT ![dir] = NoRecord]
                /\ temp_list_file' = [temp_list_file EXCEPT ![dir] = FALSE]
                /\ Returns(t, Result("delete_session", "True"))
    /\ UNCHANGED <<transport, last_activity_running, last_current_file,
                   ignored_patterns, ev, pending, auto_mode, is_capturing,
                   current_session_dir, capture_thread, lock, loops, now, n_requests,
                   n_events, ffmpeg_processes, proc, n_active, ffmpeg_processes_lock,
                   readers, platform, camera_cache, camera_cache_lock,
                   camera_settings, handles, camera_dims, cam, camera_last_used,
                   stop_event, monitor_thread, ip_camera>>

\* GET /frames/<session_id>
RequestFrames(t, session_id) ==
    /\ pc[t] = "idle"
    /\ n_requests < MaxRequests
    /\ n_requests' = n_requests + 1
    /\ pc' = [pc EXCEPT ![t] = "gf_enter"]
    /\ arg' = [arg EXCEPT ![t] = [NoArg EXCEPT !.raw = session_id,
                                                !.session_id = ResolveDir(session_id)]]
    /\ UNCHANGED <<transport, last_activity_running, last_current_file,
                   ignored_patterns, ev, pending, auto_mode, is_capturing,
                   current_session_dir, capture_thread, lock, sessions, loops, now,
                   n_events, ffmpeg_processes, proc, n_active, ffmpeg_processes_lock,
                   status_file, readers, ret, platform, camera_cache,
                   camera_cache_lock, camera_settings, handles, camera_dims, cam,
                   temp_list_file, camera_last_used, stop_event, monitor_thread,
                   ip_camera>>

\* lines 1244-1277: the frame files of the directory the path names, "[]" if there
\* is no such directory or it holds none
GetSessionFrames(t) ==
    /\ pc[t] = "gf_enter"
    /\ LET dir == arg[t].session_id
       IN  IF dir = NoDir \/ ~sessions[dir].exists \/ sessions[dir].frames = {}
           THEN Returns(t, Result("get_session_frames", "[]"))
           ELSE Returns(t, Result("get_session_frames", "frames"))
    /\ UNCHANGED <<transport, last_activity_running, last_current_file,
                   ignored_patterns, ev, pending, auto_mode, is_capturing,
                   current_session_dir, capture_thread, lock, sessions, loops, now,
                   n_requests, n_events, ffmpeg_processes, proc, n_active,
                   ffmpeg_processes_lock, status_file, readers, platform,
                   camera_cache, camera_cache_lock, camera_settings, handles,
                   camera_dims, cam, temp_list_file, camera_last_used, stop_event,
                   monitor_thread, ip_camera>>

(***************************************************************************)
(* cancel_video_creation (app.py) and cancel_video                         *)
(***************************************************************************)
\* POST /cancel_video/<session_id>
RequestCancelVideo(t, s) ==
    /\ pc[t] = "idle"
    /\ n_requests < MaxRequests
    /\ n_requests' = n_requests + 1
    /\ pc' = [pc EXCEPT ![t] = "cn_enter"]
    /\ arg' = [arg EXCEPT ![t] = [NoArg EXCEPT !.session_id = s]]
    /\ UNCHANGED <<transport, last_activity_running, last_current_file,
                   ignored_patterns, ev, pending, auto_mode, is_capturing,
                   current_session_dir, capture_thread, lock, sessions, loops, now,
                   n_events, ffmpeg_processes, proc, n_active, ffmpeg_processes_lock,
                   status_file, readers, ret, platform, camera_cache,
                   camera_cache_lock, camera_settings, handles, camera_dims, cam,
                   temp_list_file, camera_last_used, stop_event, monitor_thread,
                   ip_camera>>

\* process.poll() is None
Running_Exists(p) == p # "none"

Running(p) == p = "running"

\* lines 1116-1134 and 1167-1178: without a running process of that id the result is
\* False; with one, it is marked cancelled and terminated
CancelEnter(t) ==
    /\ pc[t] = "cn_enter"
    /\ RegistryFree(ffmpeg_processes_lock)
    /\ LET session_id == arg[t].session_id
           entry == ffmpeg_processes[session_id]
       IN  IF entry = NoEntry
           THEN /\ Returns(t, Result("cancel_video", "False"))
                /\ UNCHANGED <<ffmpeg_processes, ffmpeg_processes_lock, proc>>
           ELSE IF ~Running(proc[entry.process])
           THEN /\ ffmpeg_processes' = DelEntry(ffmpeg_processes, session_id)
                /\ Returns(t, Result("cancel_video", "False"))
                /\ UNCHANGED <<ffmpeg_processes_lock, proc>>
           ELSE /\ ffmpeg_processes_lock' = t
                /\ ffmpeg_processes' = [ffmpeg_processes EXCEPT
                                           ![session_id].cancelled = TRUE]
                /\ proc' = [proc EXCEPT ![entry.process] = "cancelled"]
                /\ pc' = [pc EXCEPT ![t] = "cn_finish"]
                /\ UNCHANGED <<arg, ret>>
    /\ UNCHANGED <<transport, last_activity_running, last_current_file,
                   ignored_patterns, ev, pending, auto_mode, is_capturing,
                   current_session_dir, capture_thread, lock, sessions, loops, now,
                   n_requests, n_events, n_active, status_file, readers, platform,
                   camera_cache, camera_cache_lock, camera_settings, handles,
                   camera_dims, cam, temp_list_file, camera_last_used, stop_event,
                   monitor_thread, ip_camera>>

\* lines 1136-1158: the record says cancelled, the entry is removed, the result is
\* True
CancelFinish(t) ==
    /\ pc[t] = "cn_finish"
    /\ LET session_id == arg[t].session_id
           entry == ffmpeg_processes[session_id]
       IN  /\ status_file' = [status_file EXCEPT ![session_id] =
                                 write_progress_data(@,
                                     Record("cancelled", 0, entry.job,
                                            entry.start_time))]
           /\ ffmpeg_processes' = DelEntry(ffmpeg_processes, session_id)
    /\ ffmpeg_processes_lock' = "free"
    /\ Returns(t, Result("cancel_video", "True"))
    /\ UNCHANGED <<transport, last_activity_running, last_current_file,
                   ignored_patterns, ev, pending, auto_mode, is_capturing,
                   current_session_dir, capture_thread, lock, sessions, loops, now,
                   n_requests, n_events, proc, n_active, readers, platform,
                   camera_cache, camera_cache_lock, camera_settings, handles,
                   camera_dims, cam, temp_list_file, camera_last_used, stop_event,
                   monitor_thread, ip_camera>>

(***************************************************************************)
(* pre_initialize_camera, _get_camera and _set_camera_resolution           *)
(***************************************************************************)
\* POST /pre_initialize_camera: line 1380 resolves the argument
RequestPreInit(t, camera) ==
    /\ pc[t] = "idle"
    /\ n_requests < MaxRequests
    /\ n_requests' = n_requests + 1
    /\ pc' = [pc EXCEPT ![t] = "gc_enter"]
    /\ cam' = [cam EXCEPT ![t] =
                  [NoCall EXCEPT !.op = "pre_initialize_camera",
                                 !.camera = camera,
                                 !.camera_index = get_camera_index(camera, platform)]]
    /\ UNCHANGED <<transport, last_activity_running, last_current_file,
                   ignored_patterns, ev, pending, auto_mode, is_capturing,
                   current_session_dir, capture_thread, lock, sessions, loops, now,
                   arg, n_events, ffmpeg_processes, proc, n_active,
                   ffmpeg_processes_lock, status_file, readers, ret, platform,
                   camera_cache, camera_cache_lock, camera_settings, handles,
                   camera_dims, temp_list_file, camera_last_used, stop_event,
                   monitor_thread, ip_camera>>

\* A test capture (line 1364): capture_single_frame resolves the argument (line 687)
RequestCapture(t, camera) ==
    /\ pc[t] = "idle"
    /\ n_requests < MaxRequests
    /\ n_requests' = n_requests + 1
    /\ pc' = [pc EXCEPT ![t] = "gc_enter"]
    /\ cam' = [cam EXCEPT ![t] =
                  [NoCall EXCEPT !.op = "capture_single_frame",
                                 !.camera = camera,
                                 !.camera_index = get_camera_index(camera, platform)]]
    /\ UNCHANGED <<transport, last_activity_running, last_current_file,
                   ignored_patterns, ev, pending, auto_mode, is_capturing,
                   current_session_dir, capture_thread, lock, sessions, loops, now,
                   arg, n_events, ffmpeg_processes, proc, n_active,
                   ffmpeg_processes_lock, status_file, readers, ret, platform,
                   camera_cache, camera_cache_lock, camera_settings, handles,
                   camera_dims, temp_list_file, camera_last_used, stop_event,
                   monitor_thread, ip_camera>>

\* _get_camera has returned the handle: pre_initialize_camera returns True (line
\* 1387), capture_single_frame goes on to read through it (lines 694-718)
GotCamera(t) ==
    IF cam[t].op = "capture_single_frame"
    THEN /\ pc' = [pc EXCEPT ![t] = "cs_read"]
         /\ cam' = [cam EXCEPT ![t] = Holding(cam[t])]
         /\ UNCHANGED <<arg, ret>>
    ELSE /\ Returns(t, Result(cam[t].op, "True"))
         /\ cam' = [cam EXCEPT ![t] = NoCall]

\* _get_camera has raised: pre_initialize_camera returns False (lines 1388-1390),
\* capture_single_frame raises again (lines 774-776)
NoCamera_Result(t) ==
    /\ Returns(t, Result(cam[t].op, IF cam[t].op = "capture_single_frame"
                                    THEN "raise" ELSE "False"))
    /\ cam' = [cam EXCEPT ![t] = NoCall]

\* the fallback list with the requested resolution first (lines 580-588)
Candidates_Insert(resolution_str) == <<resolution_str>> \o fallback_resolutions

Candidates(resolution_str) ==
    <<resolution_str>> \o SelectSeq(fallback_resolutions, LAMBDA r : r # resolution_str)

\* lines 467-484: a cached handle that is still open is returned; one that is not
\* is released and forgotten
GetCameraEnter(t) ==
    /\ pc[t] = "gc_enter"
    /\ CacheFree(camera_cache_lock)
    /\ LET key == cache_key(cam[t].camera_index)
       IN  /\ camera_last_used' = IF camera_cache[key] # "absent"
                                  THEN [camera_last_used EXCEPT ![key] = now]
                                  ELSE camera_last_used
           /\ IF camera_cache[key] = "open"
              THEN /\ GotCamera(t)
                   /\ UNCHANGED <<camera_cache, camera_cache_lock>>
              ELSE /\ camera_cache' = [camera_cache EXCEPT ![key] = "absent"]
                   /\ camera_cache_lock' = t
                   /\ pc' = [pc EXCEPT ![t] = "gc_open"]
                   /\ UNCHANGED <<arg, ret, cam>>
    /\ UNCHANGED <<transport, last_activity_running, last_current_file,
                   ignored_patterns, ev, pending, auto_mode, is_capturing,
                   current_session_dir, capture_thread, lock, sessions, loops, now,
                   n_requests, n_events, ffmpeg_processes, proc, n_active,
                   ffmpeg_processes_lock, status_file, readers, platform,
                   camera_settings, handles, camera_dims, temp_list_file, stop_event,
                   monitor_thread, ip_camera>>

\* lines 506-531: cv2.VideoCapture(camera_index); a device that does not open is an
\* exception, which pre_initialize_camera turns into False
GetCameraOpen(t, opened) ==
    /\ pc[t] = "gc_open"
    /\ IF opened
       THEN /\ handles' = [handles EXCEPT ![cam[t].camera_index] = @ + 1]
            /\ cam' = [cam EXCEPT ![t].candidates =
                          Candidates(IF camera_settings = NoResolution
                                     THEN default_resolution ELSE camera_settings)]
            /\ pc' = [pc EXCEPT ![t] = "gc_res"]
            /\ UNCHANGED <<arg, ret, camera_cache_lock>>
       ELSE /\ camera_cache_lock' = "free"
            /\ NoCamera_Result(t)
            /\ UNCHANGED handles
    /\ UNCHANGED <<transport, last_activity_running, last_current_file,
                   ignored_patterns, ev, pending, auto_mode, is_capturing,
                   current_session_dir, capture_thread, lock, sessions, loops, now,
                   n_requests, n_events, ffmpeg_processes, proc, n_active,
                   ffmpeg_processes_lock, status_file, readers, platform,
                   camera_cache, camera_settings, camera_dims, temp_list_file,
                   camera_last_used, stop_event, monitor_thread, ip_camera>>

\* What the loop has left to try
NextCandidate(t) == cam[t].tried + 1

\* lines 591-614: one candidate.  The device takes a size it supports and keeps its
\* own otherwise, and the test read gives a frame, gives none, or raises.
TryResolution(t, outcome) ==
    /\ pc[t] = "gc_res"
    /\ NextCandidate(t) <= Len(cam[t].candidates)
    /\ LET res == cam[t].candidates[NextCandidate(t)]
           d == cam[t].camera_index
           actual == IF res \in DeviceModes THEN res ELSE camera_dims[d]
       IN  /\ camera_dims' = [camera_dims EXCEPT ![d] = actual]
           /\ IF outcome = "ok"
              THEN /\ cam' = [cam EXCEPT ![t].tried = NextCandidate(t),
                                         ![t].first_ok = NextCandidate(t),
                                         ![t].result = actual]
                   /\ camera_settings' = IF actual # res THEN actual ELSE camera_settings
                   /\ pc' = [pc EXCEPT ![t] = "gc_store"]
              ELSE /\ cam' = [cam EXCEPT ![t].tried = NextCandidate(t)]
                   /\ UNCHANGED <<camera_settings, pc>>
    /\ UNCHANGED <<transport, last_activity_running, last_current_file,
                   ignored_patterns, ev, pending, auto_mode, is_capturing,
                   current_session_dir, capture_thread, lock, sessions, loops, now,
                   arg, n_requests, n_events, ffmpeg_processes, proc, n_active,
                   ffmpeg_processes_lock, status_file, readers, ret, platform,
                   camera_cache, camera_cache_lock, handles, temp_list_file,
                   camera_last_used, stop_event, monitor_thread, ip_camera>>

\* lines 616-618: no candidate gave a frame
ResolutionDefaults_Unset(t) ==
    /\ pc[t] = "gc_res"
    /\ NextCandidate(t) > Len(cam[t].candidates)
    /\ pc' = [pc EXCEPT ![t] = "gc_store"]
    /\ UNCHANGED <<transport, last_activity_running, last_current_file,
                   ignored_patterns, ev, pending, auto_mode, is_capturing,
                   current_session_dir, capture_thread, lock, sessions, loops, now,
                   arg, n_requests, n_events, ffmpeg_processes, proc, n_active,
                   ffmpeg_processes_lock, status_file, readers, ret, platform,
                   camera_cache, camera_cache_lock, camera_settings, handles,
                   camera_dims, cam, temp_list_file, camera_last_used, stop_event,
                   monitor_thread, ip_camera>>

ResolutionDefaults(t) ==
    /\ pc[t] = "gc_res"
    /\ NextCandidate(t) > Len(cam[t].candidates)
    /\ cam' = [cam EXCEPT ![t].result = camera_dims[cam[t].camera_index]]
    /\ pc' = [pc EXCEPT ![t] = "gc_store"]
    /\ UNCHANGED <<transport, last_activity_running, last_current_file,
                   ignored_patterns, ev, pending, auto_mode, is_capturing,
                   current_session_dir, capture_thread, lock, sessions, loops, now,
                   arg, n_requests, n_events, ffmpeg_processes, proc, n_active,
                   ffmpeg_processes_lock, status_file, readers, ret, platform,
                   camera_cache, camera_cache_lock, camera_settings, handles,
                   camera_dims, temp_list_file, camera_last_used, stop_event,
                   monitor_thread, ip_camera>>

\* lines 563-567: the handle enters the cache
GetCameraStore(t) ==
    /\ pc[t] = "gc_store"
    /\ camera_cache' = [camera_cache EXCEPT ![cache_key(cam[t].camera_index)] = "open"]
    /\ camera_last_used' = [camera_last_used EXCEPT
                               ![cache_key(cam[t].camera_index)] = now]
    /\ camera_cache_lock' = "free"
    /\ GotCamera(t)
    /\ UNCHANGED <<transport, last_activity_running, last_current_file,
                   ignored_patterns, ev, pending, auto_mode, is_capturing,
                   current_session_dir, capture_thread, lock, sessions, loops, now,
                   n_requests, n_events, ffmpeg_processes, proc, n_active,
                   ffmpeg_processes_lock, status_file, readers, platform,
                   camera_settings, handles, camera_dims, temp_list_file, stop_event,
                   monitor_thread, ip_camera>>

\* The device of a cached handle goes away: isOpened() is False from now on
CameraFails(key) ==
    /\ camera_cache[key] = "open"
    /\ camera_cache' = [camera_cache EXCEPT ![key] = "closed"]
    /\ handles' = [handles EXCEPT ![int(key)] = @ - 1]
    /\ UNCHANGED <<transport, last_activity_running, last_current_file,
                   ignored_patterns, ev, pending, auto_mode, is_capturing,
                   current_session_dir, capture_thread, lock, sessions, loops, now,
                   pc, arg, n_requests, n_events, ffmpeg_processes, proc, n_active,
                   ffmpeg_processes_lock, status_file, readers, ret, platform,
                   camera_cache_lock, camera_settings, camera_dims, cam,
                   temp_list_file, camera_last_used, stop_event, monitor_thread,
                   ip_camera>>

\* lines 704-718: the caller flushes the buffer and reads through the handle it was
\* given, outside camera_cache_lock; a released handle gives no frame
CaptureRead(t, ok) ==
    /\ pc[t] = "cs_read"
    /\ Returns(t, Result("capture_single_frame",
                         IF ok /\ ~cam[t].released THEN "True" ELSE "raise"))
    /\ cam' = [cam EXCEPT ![t] = NoCall]
    /\ UNCHANGED <<transport, last_activity_running, last_current_file,
                   ignored_patterns, ev, pending, auto_mode, is_capturing,
                   current_session_dir, capture_thread, lock, sessions, loops, now,
                   n_requests, n_events, ffmpeg_processes, proc, n_active,
                   ffmpeg_processes_lock, status_file, readers, platform,
                   camera_cache, camera_cache_lock, camera_settings, handles,
                   camera_dims, temp_list_file, camera_last_used, stop_event,
                   monitor_thread, ip_camera>>

\* line 428: the entries of camera_last_used older than the timeout
Expired_Never(last_used, current_time) == {}

Expired(last_used, current_time) ==
    {k \in CacheKeys : /\ last_used[k] # NoUse
                       /\ current_time - last_used[k] > camera_cache_timeout}

\* lines 427-429 for the network camera's entry, which line 445 deletes only when
\* the cache still has it
IpExpired(handle, current_time) ==
    /\ handle.cached
    /\ handle.last_used # NoUse
    /\ current_time - handle.last_used > camera_cache_timeout

\* _cleanup_camera_cache: the handles not used for camera_cache_timeout seconds are
\* released and forgotten, whoever still reads through them
CleanupCameraCache ==
    /\ CacheFree(camera_cache_lock)
    /\ LET keys == {k \in Expired(camera_last_used, now) : camera_cache[k] # "absent"}
           ip == IpExpired(ip_camera, now)
       IN  /\ keys # {} \/ ip
           /\ ip_camera' = IF ip THEN [ip_camera EXCEPT !.cached = FALSE,
                                                        !.last_frame = NoFrame,
                                                        !.last_frame_time = 0,
                                                        !.last_used = NoUse]
                                 ELSE ip_camera
           /\ camera_cache' = [k \in CacheKeys |->
                                   IF k \in keys THEN "absent" ELSE camera_cache[k]]
           /\ camera_last_used' = [k \in CacheKeys |->
                                       IF k \in keys THEN NoUse ELSE camera_last_used[k]]
           /\ handles' = [d \in Cameras |->
                             IF cache_key(d) \in keys /\ camera_cache[cache_key(d)] = "open"
                             THEN handles[d] - 1 ELSE handles[d]]
           /\ cam' = [t \in Threads |->
                         IF \/ pc[t] = "cs_read" /\ cache_key(cam[t].camera_index) \in keys
                            \/ pc[t] \in {"ip_check", "ip_fetch"} /\ ip
                         THEN [cam[t] EXCEPT !.released = TRUE] ELSE cam[t]]
    /\ UNCHANGED <<transport, last_activity_running, last_current_file,
                   ignored_patterns, ev, pending, auto_mode, is_capturing,
                   current_session_dir, capture_thread, lock, sessions, loops, now,
                   pc, arg, n_requests, n_events, ffmpeg_processes, proc, n_active,
                   ffmpeg_processes_lock, status_file, readers, ret, platform,
                   camera_cache_lock, camera_settings, camera_dims, temp_list_file,
                   stop_event, monitor_thread>>

\* More than camera_cache_timeout seconds pass
Idle ==
    /\ now + camera_cache_timeout + 1 <= StartTime + MaxIdle * (camera_cache_timeout + 1)
    /\ now' = now + camera_cache_timeout + 1
    /\ UNCHANGED <<transport, last_activity_running, last_current_file,
                   ignored_patterns, ev, pending, auto_mode, is_capturing,
                   current_session_dir, capture_thread, lock, sessions, loops, pc,
                   arg, n_requests, n_events, ffmpeg_processes, proc, n_active,
                   ffmpeg_processes_lock, status_file, readers, ret, platform,
                   camera_cache, camera_cache_lock, camera_settings, handles,
                   camera_dims, cam, temp_list_file, camera_last_used, stop_event,
                   monitor_thread, ip_camera>>

(***************************************************************************)
(* set_resolution and cleanup                                              *)
(***************************************************************************)
\* POST /camera_settings with a resolution: line 1461 stores it
RequestSetResolution(t, resolution_str) ==
    /\ pc[t] = "idle"
    /\ n_requests < MaxRequests
    /\ n_requests' = n_requests + 1
    /\ camera_settings' = resolution_str
    /\ pc' = [pc EXCEPT ![t] = "sr_enter"]
    /\ UNCHANGED <<transport, last_activity_running, last_current_file,
                   ignored_patterns, ev, pending, auto_mode, is_capturing,
                   current_session_dir, capture_thread, lock, sessions, loops, now,
                   arg, n_events, ffmpeg_processes, proc, n_active,
                   ffmpeg_processes_lock, status_file, readers, ret, platform,
                   camera_cache, camera_cache_lock, handles, camera_dims, cam,
                   temp_list_file, camera_last_used, stop_event, monitor_thread,
                   ip_camera>>

\* lines 1464-1472, under camera_cache_lock: every open cached camera is set, by
\* _set_camera_resolution, to the size the device settles on, and a size other
\* than the requested one is stored in the settings
SetResolution(t, actual) ==
    /\ pc[t] = "sr_enter"
    /\ CacheFree(camera_cache_lock)
    /\ LET opened == {d \in Cameras : camera_cache[cache_key(d)] = "open"}
       IN  /\ camera_dims' = [d \in Cameras |->
                                 IF d \in opened THEN actual ELSE camera_dims[d]]
           /\ camera_settings' = IF opened # {} /\ actual # camera_settings
                                 THEN actual ELSE camera_settings
    /\ Returns(t, Result("set_resolution", "True"))
    /\ UNCHANGED <<transport, last_activity_running, last_current_file,
                   ignored_patterns, ev, pending, auto_mode, is_capturing,
                   current_session_dir, capture_thread, lock, sessions, loops, now,
                   n_requests, n_events, ffmpeg_processes, proc, n_active,
                   ffmpeg_processes_lock, status_file, readers, platform,
                   camera_cache, camera_cache_lock, handles, cam, temp_list_file,
                   camera_last_used, stop_event, monitor_thread, ip_camera>>

\* cleanup(), at exit: a running capture is stopped first (lines 1397-1398)
RequestCleanup(t) ==
    /\ pc[t] = "idle"
    /\ cam[t] = NoCall
    /\ n_requests < MaxRequests
    /\ n_requests' = n_requests + 1
    /\ cam' = [cam EXCEPT ![t] = [NoCall EXCEPT !.op = "cleanup"]]
    /\ pc' = [pc EXCEPT ![t] = IF is_capturing THEN "sp_enter" ELSE "cl_registry"]
    /\ arg' = [arg EXCEPT ![t] = NoArg]
    /\ UNCHANGED <<transport, last_activity_running, last_current_file,
                   ignored_patterns, ev, pending, auto_mode, is_capturing,
                   current_session_dir, capture_thread, lock, sessions, loops, now,
                   n_events, ffmpeg_processes, proc, n_active, ffmpeg_processes_lock,
                   status_file, readers, ret, platform, camera_cache,
                   camera_cache_lock, camera_settings, handles, camera_dims,
                   temp_list_file, camera_last_used, stop_event, monitor_thread,
                   ip_camera>>

\* stop_timelapse has returned to cleanup
CleanupStopped(t) ==
    /\ pc[t] = "idle"
    /\ cam[t].op = "cleanup"
    /\ pc' = [pc EXCEPT ![t] = "cl_registry"]
    /\ UNCHANGED <<transport, last_activity_running, last_current_file,
                   ignored_patterns, ev, pending, auto_mode, is_capturing,
                   current_session_dir, capture_thread, lock, sessions, loops, now,
                   arg, n_requests, n_events, ffmpeg_processes, proc, n_active,
                   ffmpeg_processes_lock, status_file, readers, ret, platform,
                   camera_cache, camera_cache_lock, camera_settings, handles,
                   camera_dims, cam, temp_list_file, camera_last_used, stop_event,
                   monitor_thread, ip_camera>>

\* lines 1401-1424, under ffmpeg_processes_lock: every running encoder is
\* terminated, which its create_video sees as exit status -15, and the registry
\* cleared
CleanupRegistry(t) ==
    /\ pc[t] = "cl_registry"
    /\ RegistryFree(ffmpeg_processes_lock)
    /\ LET owners == {ffmpeg_processes[s].process : s \in Dirs} \ {"none"}
       IN  proc' = [u \in Threads |->
                       IF u \in owners /\ Running(proc[u]) THEN Exited(-15) ELSE proc[u]]
    /\ ffmpeg_processes' = [s \in Dirs |-> NoEntry]
    /\ pc' = [pc EXCEPT ![t] = "cl_cache"]
    /\ UNCHANGED <<transport, last_activity_running, last_current_file,
                   ignored_patterns, ev, pending, auto_mode, is_capturing,
                   current_session_dir, capture_thread, lock, sessions, loops, now,
                   arg, n_requests, n_events, n_active, ffmpeg_processes_lock,
                   status_file, readers, ret, platform, camera_cache,
                   camera_cache_lock, camera_settings, handles, camera_dims, cam,
                   temp_list_file, camera_last_used, stop_event, monitor_thread,
                   ip_camera>>

\* lines 1427-1444, under camera_cache_lock: every cached camera is released, the
\* network camera's frame forgotten, and the cache cleared
CleanupCache(t) ==
    /\ pc[t] = "cl_cache"
    /\ CacheFree(camera_cache_lock)
    /\ camera_cache' = [k \in CacheKeys |-> "absent"]
    /\ camera_last_used' = [k \in CacheKeys |-> NoUse]
    /\ handles' = [d \in Cameras |->
                      IF camera_cache[cache_key(d)] = "open"
                      THEN handles[d] - 1 ELSE handles[d]]
    /\ ip_camera' = [ip_camera EXCEPT !.cached = FALSE, !.last_frame = NoFrame,
                                      !.last_frame_time = 0, !.last_used = NoUse]
    /\ Returns(t, Result("cleanup", "None"))
    /\ cam' = [u \in Threads |->
                  IF u = t THEN NoCall
                  ELSE IF pc[u] \in {"cs_read", "ip_check", "ip_fetch"}
                  THEN [cam[u] EXCEPT !.released = TRUE] ELSE cam[u]]
    /\ UNCHANGED <<transport, last_activity_running, last_current_file,
                   ignored_patterns, ev, pending, auto_mode, is_capturing,
                   current_session_dir, capture_thread, lock, sessions, loops, now,
                   n_requests, n_events, ffmpeg_processes, proc, n_active,
                   ffmpeg_processes_lock, status_file, readers, platform,
                   camera_cache_lock, camera_settings, camera_dims, temp_list_file,
                   stop_event, monitor_thread>>

(***************************************************************************)
(* The network camera: add_ip_camera, _get_camera, _capture_ip_camera_frame *)
(***************************************************************************)
\* add_ip_camera: the first network camera becomes ip_camera_0 (line 1799); its
\* handle is stored in camera_cache (lines 1802-1809) and its id appended to
\* available_cameras (line 1812), with no lock taken
AddIpCamera(t) ==
    /\ pc[t] = "idle"
    /\ ~ip_camera.listed
    /\ n_requests < MaxRequests
    /\ n_requests' = n_requests + 1
    /\ ip_camera' = [ip_camera EXCEPT !.listed = TRUE, !.cached = TRUE,
                                      !.last_frame = NoFrame, !.last_frame_time = 0]
    /\ ret' = [ret EXCEPT ![t] = Result("add_ip_camera", "True")]
    /\ UNCHANGED <<transport, last_activity_running, last_current_file,
                   ignored_patterns, ev, pending, auto_mode, is_capturing,
                   current_session_dir, capture_thread, lock, sessions, loops, now,
                   pc, arg, n_events, ffmpeg_processes, proc, n_active,
                   ffmpeg_processes_lock, status_file, readers, platform,
                   camera_cache, camera_cache_lock, camera_settings, handles,
                   camera_dims, cam, temp_list_file, camera_last_used, stop_event,
                   monitor_thread>>

\* A test capture from the network camera (line 1364): _get_camera_index gives its
\* id back (lines 374-375)
RequestIpCapture(t) ==
    /\ pc[t] = "idle"
    /\ ip_camera.listed
    /\ n_requests < MaxRequests
    /\ n_requests' = n_requests + 1
    /\ pc' = [pc EXCEPT ![t] = "ip_get"]
    /\ cam' = [cam EXCEPT ![t] = [NoCall EXCEPT !.op = "capture_single_frame"]]
    /\ UNCHANGED <<transport, last_activity_running, last_current_file,
                   ignored_patterns, ev, pending, auto_mode, is_capturing,
                   current_session_dir, capture_thread, lock, sessions, loops, now,
                   arg, n_events, ffmpeg_processes, proc, n_active,
                   ffmpeg_processes_lock, status_file, readers, ret, platform,
                   camera_cache, camera_cache_lock, camera_settings, handles,
                   camera_dims, temp_list_file, camera_last_used, stop_event,
                   monitor_thread, ip_camera>>

\* _get_camera for the network camera, under camera_cache_lock: the cached handle
\* is returned (lines 471-476); a forgotten one is made again from IP_CAMERA_URL
\* (lines 487-503), and without that variable the call raises (line 505)
GetIpCamera(t, ip_camera_url) ==
    /\ pc[t] = "ip_get"
    /\ CacheFree(camera_cache_lock)
    /\ IF ip_camera.cached
       THEN /\ ip_camera' = [ip_camera EXCEPT !.last_used = now]
            /\ pc' = [pc EXCEPT ![t] = "ip_check"]
            /\ UNCHANGED <<arg, ret, cam>>
       ELSE IF ip_camera_url
       THEN /\ ip_camera' = [ip_camera EXCEPT !.cached = TRUE, !.last_frame = NoFrame,
                                              !.last_frame_time = 0, !.last_used = now]
            /\ pc' = [pc EXCEPT ![t] = "ip_check"]
            /\ UNCHANGED <<arg, ret, cam>>
       ELSE /\ NoCamera_Result(t)
            /\ UNCHANGED ip_camera
    /\ UNCHANGED <<transport, last_activity_running, last_current_file,
                   ignored_patterns, ev, pending, auto_mode, is_capturing,
                   current_session_dir, capture_thread, lock, sessions, loops, now,
                   n_requests, n_events, ffmpeg_processes, proc, n_active,
                   ffmpeg_processes_lock, status_file, readers, platform,
                   camera_cache, camera_cache_lock, camera_settings, handles,
                   camera_dims, temp_list_file, camera_last_used, stop_event,
                   monitor_thread>>

\* line 642: the cached frame is recent enough to be served.  The window is 0.1 s;
\* on a clock of whole seconds that is the second the frame was stamped with
Recent_Always(handle, current_time) == handle.last_frame # NoFrame

Recent(handle, current_time) ==
    /\ handle.last_frame # NoFrame
    /\ current_time - handle.last_frame_time < 1

\* _capture_ip_camera_frame, lines 640-650: a recent cached frame is returned,
\* otherwise the GET is sent; no lock is held
IpCheck(t) ==
    /\ pc[t] = "ip_check"
    /\ IF ~cam[t].released /\ Recent(ip_camera, now)
       THEN /\ Returns(t, Result("capture_single_frame", "True"))
            /\ cam' = [cam EXCEPT ![t] = NoCall]
            /\ UNCHANGED ip_camera
       ELSE /\ pc' = [pc EXCEPT ![t] = "ip_fetch"]
            /\ cam' = [cam EXCEPT ![t].current_time = now]
            /\ ip_camera' = [ip_camera EXCEPT !.requests = @ + 1]
            /\ UNCHANGED <<arg, ret>>
    /\ UNCHANGED <<transport, last_activity_running, last_current_file,
                   ignored_patterns, ev, pending, auto_mode, is_capturing,
                   current_session_dir, capture_thread, lock, sessions, loops, now,
                   n_requests, n_events, ffmpeg_processes, proc, n_active,
                   ffmpeg_processes_lock, status_file, readers, platform,
                   camera_cache, camera_cache_lock, camera_settings, handles,
                   camera_dims, temp_list_file, camera_last_used, stop_event,
                   monitor_thread>>

\* lines 652-667: the response has come.  A good one is decoded and stored in the
\* handle with the time taken before the request (lines 663-664), no lock held;
\* anything else raises (lines 653, 660, 669-671).  A handle the sweep has
\* deleted meanwhile is no longer the one in the cache
IpFetch(t, ok) ==
    /\ pc[t] = "ip_fetch"
    /\ ip_camera' = IF ok /\ ~cam[t].released
                    THEN [ip_camera EXCEPT !.last_frame = 1,
                                           !.last_frame_time = cam[t].current_time]
                    ELSE ip_camera
    /\ Returns(t, Result("capture_single_frame", IF ok THEN "True" ELSE "raise"))
    /\ cam' = [cam EXCEPT ![t] = NoCall]
    /\ UNCHANGED <<transport, last_activity_running, last_current_file,
                   ignored_patterns, ev, pending, auto_mode, is_capturing,
                   current_session_dir, capture_thread, lock, sessions, loops, now,
                   n_requests, n_events, ffmpeg_processes, proc, n_active,
                   ffmpeg_processes_lock, status_file, readers, platform,
                   camera_cache, camera_cache_lock, camera_settings, handles,
                   camera_dims, temp_list_file, camera_last_used, stop_event,
                   monitor_thread>>

(***************************************************************************)
(* The clock                                                               *)
(***************************************************************************)
Tick ==
    /\ now < StartTime + MaxTime
    /\ now' = now + 1
    /\ UNCHANGED <<transport, last_activity_running, last_current_file,
                   ignored_patterns, ev, pending, auto_mode, is_capturing,
                   current_session_dir, capture_thread, lock, sessions, loops, pc,
                   arg, n_requests, n_events, ffmpeg_processes, proc, n_active,
                   ffmpeg_processes_lock, status_file, readers, ret, platform,
                   camera_cache, camera_cache_lock, camera_settings, handles,
                   camera_dims, cam, temp_list_file, camera_last_used, stop_event,
                   monitor_thread, ip_camera>>

(***************************************************************************)
(* ActivityMonitor.start, stop and the transport loops                     *)
(***************************************************************************)
\* lines 192-198: MQTT before WebSocket before HTTP polling
Target(use_mqtt, use_websocket) ==
    IF use_mqtt THEN "_mqtt_monitor_loop"
    ELSE IF use_websocket THEN "_run_websocket_loop" ELSE "_monitor_loop"

\* start(): nothing while the thread is alive (lines 187-189); else clear the event
\* and run the loop
MonitorStart(use_mqtt, use_websocket) ==
    /\ ~monitor_thread.joining
    /\ IF monitor_thread.alive
       THEN /\ monitor_thread' = [monitor_thread EXCEPT !.started = TRUE]
            /\ UNCHANGED stop_event
       ELSE /\ stop_event' = FALSE
            /\ monitor_thread' =
                   [NoMonitor EXCEPT !.target = Target(use_mqtt, use_websocket),
                                     !.alive = TRUE, !.pc = "head", !.started = TRUE]
    /\ UNCHANGED <<transport, last_activity_running, last_current_file,
                   ignored_patterns, ev, pending, auto_mode, is_capturing,
                   current_session_dir, capture_thread, lock, sessions, loops, now,
                   pc, arg, n_requests, n_events, ffmpeg_processes, proc, n_active,
                   ffmpeg_processes_lock, status_file, readers, ret, platform,
                   camera_cache, camera_cache_lock, camera_settings, handles,
                   camera_dims, cam, temp_list_file, camera_last_used, ip_camera>>

\* stop(): nothing while no thread is alive (lines 206-208); else set the event
\* and wait in join
MonitorStop ==
    /\ ~monitor_thread.joining
    /\ stop_event' = (stop_event \/ monitor_thread.alive)
    /\ monitor_thread' = [monitor_thread EXCEPT !.started = FALSE,
                                                !.joining = monitor_thread.alive]
    /\ UNCHANGED <<transport, last_activity_running, last_current_file,
                   ignored_patterns, ev, pending, auto_mode, is_capturing,
                   current_session_dir, capture_thread, lock, sessions, loops, now,
                   pc, arg, n_requests, n_events, ffmpeg_processes, proc, n_active,
                   ffmpeg_processes_lock, status_file, readers, ret, platform,
                   camera_cache, camera_cache_lock, camera_settings, handles,
                   camera_dims, cam, temp_list_file, camera_last_used, ip_camera>>

\* lines 217-219: join(timeout=10) returns when the thread has ended, or, with the
\* thread waiting in recv for a message, when the ten seconds have passed; stop()
\* logs a warning and returns
MonitorJoin ==
    /\ monitor_thread.joining
    /\ ~monitor_thread.alive \/ monitor_thread.pc = "recv"
    /\ monitor_thread' = [monitor_thread EXCEPT !.joining = FALSE]
    /\ UNCHANGED <<transport, last_activity_running, last_current_file,
                   ignored_patterns, ev, pending, auto_mode, is_capturing,
                   current_session_dir, capture_thread, lock, sessions, loops, now,
                   pc, arg, n_requests, n_events, ffmpeg_processes, proc, n_active,
                   ffmpeg_processes_lock, status_file, readers, ret, platform,
                   camera_cache, camera_cache_lock, camera_settings, handles,
                   camera_dims, cam, temp_list_file, camera_last_used, stop_event,
                   ip_camera>>

\* while not self.stop_event.is_set(), of each of the three loops
StopSeen(event) == event

\* _run_websocket_loop, line 225: leave when stopped, else connect
WsHead ==
    /\ monitor_thread.alive
    /\ monitor_thread.target = "_run_websocket_loop"
    /\ monitor_thread.pc = "head"
    /\ monitor_thread' = IF StopSeen(stop_event)
                         THEN [monitor_thread EXCEPT !.alive = FALSE, !.pc = "none"]
                         ELSE [monitor_thread EXCEPT !.pc = "connect"]
    /\ UNCHANGED <<transport, last_activity_running, last_current_file,
                   ignored_patterns, ev, pending, auto_mode, is_capturing,
                   current_session_dir, capture_thread, lock, sessions, loops, now,
                   pc, arg, n_requests, n_events, ffmpeg_processes, proc, n_active,
                   ffmpeg_processes_lock, status_file, readers, ret, platform,
                   camera_cache, camera_cache_lock, camera_settings, handles,
                   camera_dims, cam, temp_list_file, camera_last_used, stop_event,
                   ip_camera>>

\* _websocket_monitor, line 239: websockets.connect gives a connection or raises
WsConnect(connected) ==
    /\ monitor_thread.alive
    /\ monitor_thread.pc = "connect"
    /\ monitor_thread' = IF connected
                         THEN [monitor_thread EXCEPT !.pc = "inner", !.lost = FALSE]
                         ELSE [monitor_thread EXCEPT !.pc = "except", !.lost = TRUE]
    /\ UNCHANGED <<transport, last_activity_running, last_current_file,
                   ignored_patterns, ev, pending, auto_mode, is_capturing,
                   current_session_dir, capture_thread, lock, sessions, loops, now,
                   pc, arg, n_requests, n_events, ffmpeg_processes, proc, n_active,
                   ffmpeg_processes_lock, status_file, readers, ret, platform,
                   camera_cache, camera_cache_lock, camera_settings, handles,
                   camera_dims, cam, temp_list_file, camera_last_used, stop_event,
                   ip_camera>>

\* lines 228-232: the exception is logged, and the delay waited unless stopped
WsExcept ==
    /\ monitor_thread.alive
    /\ monitor_thread.pc = "except"
    /\ monitor_thread' = IF stop_event
                         THEN [monitor_thread EXCEPT !.pc = "head"]
                         ELSE [monitor_thread EXCEPT !.pc = "head", !.lost = FALSE]
    /\ UNCHANGED <<transport, last_activity_running, last_current_file,
                   ignored_patterns, ev, pending, auto_mode, is_capturing,
                   current_session_dir, capture_thread, lock, sessions, loops, now,
                   pc, arg, n_requests, n_events, ffmpeg_processes, proc, n_active,
                   ffmpeg_processes_lock, status_file, readers, ret, platform,
                   camera_cache, camera_cache_lock, camera_settings, handles,
                   camera_dims, cam, temp_list_file, camera_last_used, stop_event,
                   ip_camera>>

\* line 244: the inner loop leaves when stopped, else waits for a message
WsInner ==
    /\ monitor_thread.alive
    /\ monitor_thread.pc = "inner"
    /\ monitor_thread' = IF StopSeen(stop_event)
                         THEN [monitor_thread EXCEPT !.pc = "head"]
                         ELSE [monitor_thread EXCEPT !.pc = "recv"]
    /\ UNCHANGED <<transport, last_activity_running, last_current_file,
                   ignored_patterns, ev, pending, auto_mode, is_capturing,
                   current_session_dir, capture_thread, lock, sessions, loops, now,
                   pc, arg, n_requests, n_events, ffmpeg_processes, proc, n_active,
                   ffmpeg_processes_lock, status_file, readers, ret, platform,
                   camera_cache, camera_cache_lock, camera_settings, handles,
                   camera_dims, cam, temp_list_file, camera_last_used, stop_event,
                   ip_camera>>

\* lines 246-255: await websocket.recv() returns when the peer sends a message,
\* which is handled or is logged as unreadable, or closes the connection, which
\* ends _websocket_monitor without an exception
WsRecv(received) ==
    /\ monitor_thread.alive
    /\ monitor_thread.pc = "recv"
    /\ monitor_thread' = IF received = "closed"
                         THEN [monitor_thread EXCEPT !.pc = "head", !.lost = TRUE]
                         ELSE [monitor_thread EXCEPT !.pc = "inner"]
    /\ UNCHANGED <<transport, last_activity_running, last_current_file,
                   ignored_patterns, ev, pending, auto_mode, is_capturing,
                   current_session_dir, capture_thread, lock, sessions, loops, now,
                   pc, arg, n_requests, n_events, ffmpeg_processes, proc, n_active,
                   ffmpeg_processes_lock, status_file, readers, ret, platform,
                   camera_cache, camera_cache_lock, camera_settings, handles,
                   camera_dims, cam, temp_list_file, camera_last_used, stop_event,
                   ip_camera>>

\* _monitor_loop, line 326, and _mqtt_monitor_loop, line 347: leave when stopped,
\* else poll the status (reconnect the client) and sleep
LoopHead ==
    /\ monitor_thread.alive
    /\ monitor_thread.target \in {"_monitor_loop", "_mqtt_monitor_loop"}
    /\ monitor_thread.pc = "head"
    /\ monitor_thread' = IF StopSeen(stop_event)
                         THEN [monitor_thread EXCEPT !.alive = FALSE, !.pc = "none"]
                         ELSE [monitor_thread EXCEPT !.pc = "sleep"]
    /\ UNCHANGED <<transport, last_activity_running, last_current_file,
                   ignored_patterns, ev, pending, auto_mode, is_capturing,
                   current_session_dir, capture_thread, lock, sessions, loops, now,
                   pc, arg, n_requests, n_events, ffmpeg_processes, proc, n_active,
                   ffmpeg_processes_lock, status_file, readers, ret, platform,
                   camera_cache, camera_cache_lock, camera_settings, handles,
                   camera_dims, cam, temp_list_file, camera_last_used, stop_event,
                   ip_camera>>

\* lines 352 and 357: time.sleep ends
LoopSleep ==
    /\ monitor_thread.alive
    /\ monitor_thread.pc = "sleep"
    /\ monitor_thread' = [monitor_thread EXCEPT !.pc = "head"]
    /\ UNCHANGED <<transport, last_activity_running, last_current_file,
                   ignored_patterns, ev, pending, auto_mode, is_capturing,
                   current_session_dir, capture_thread, lock, sessions, loops, now,
                   pc, arg, n_requests, n_events, ffmpeg_processes, proc, n_active,
                   ffmpeg_processes_lock, status_file, readers, ret, platform,
                   camera_cache, camera_cache_lock, camera_settings, handles,
                   camera_dims, cam, temp_list_file, camera_last_used, stop_event,
                   ip_camera>>

\* Time passes while the capture loop sleeps or a capture is under way
Elapse(dt) ==
    /\ now + dt <= StartTime + MaxCaptures * interval
    /\ now' = now + dt
    /\ UNCHANGED <<transport, last_activity_running, last_current_file,
                   ignored_patterns, ev, pending, auto_mode, is_capturing,
                   current_session_dir, capture_thread, lock, sessions, loops, pc,
                   arg, n_requests, n_events, ffmpeg_processes, proc, n_active,
                   ffmpeg_processes_lock, status_file, readers, ret, platform,
                   camera_cache, camera_cache_lock, camera_settings, handles,
                   camera_dims, cam, temp_list_file, camera_last_used, stop_event,
                   monitor_thread, ip_camera>>

(***************************************************************************)
(* Specifications                                                          *)
(***************************************************************************)
PollStep == \E status \in Payloads : PollStatus(status)
MqttStep == \E topic \in Topics, token \in Tokens, file \in Files :
                MqttMessage(topic, token, file)
StartStep(t) == StartEnter(t) \/ StartMkdir(t) \/ StartRun(t)
StopStep(t) == StopEnter(t) \/ (\E ok \in BOOLEAN : StopFinal(t, ok)) \/ StopClear(t)
                   \/ StopJoin(t)
LoopStep == \E l \in LoopIds : \/ Bounded(l, MaxFrames) /\ LoopCheck(l)
                               \/ \E ok \in BOOLEAN : LoopCapture(l, ok)
VideoStep(t) == CreateVideoCheck(t) \/ CreateVideoFrames(t) \/ CreateVideoSpawn(t)
                    \/ EncoderExit(t, 0)
                    \/ CreateVideoWait(t) \/ CreateVideoCleanup(t)
                    \/ CreateVideoCompleted(t)
ReaderStep(t) == \E stream \in Streams, n \in 1 .. MaxStored : ReadLine(t, stream, n)
TimeoutStep(t) == CreateVideoTimeout(t) \/ CreateVideoTimeoutCleanup(t)
CancelStep(t) == CancelEnter(t) \/ CancelFinish(t)
FailureStep(t) == (\E returncode \in ExitCodes \ {0} : EncoderExit(t, returncode))
                      \/ CreateVideoError(t)

\* The activity monitor driving the controller
MonitorNext ==
    \/ PollStep
    \/ MqttStep
    \/ MonitorCall
    \/ StartStep(MonitorThread)
    \/ StopStep(MonitorThread)
    \/ \E am \in BOOLEAN, patterns \in PatternLists : ManageState(am, patterns)
    \/ LoopStep

Spec == Init /\ [][MonitorNext]_vars

\* The polling monitor with polls that fail
PollFailures == {"status_code", "RequestException", "JSONDecodeError"}

PollNext ==
    \/ PollStep
    \/ \E failure \in PollFailures : PollFails(failure)
    \/ MonitorCall
    \/ StartStep(MonitorThread)
    \/ StopStep(MonitorThread)
    \/ \E am \in BOOLEAN : ManageState(am, <<>>)
    \/ LoopStep

PollInit == Init /\ transport = "http" /\ ignored_patterns = <<>>

PollSpec == PollInit /\ [][PollNext]_vars

\* The same with auto mode enabled from the start and never switched off
AutoNext ==
    \/ PollStep
    \/ MqttStep
    \/ MonitorCall
    \/ StartStep(MonitorThread)
    \/ StopStep(MonitorThread)
    \/ \E patterns \in PatternLists : ManageState(TRUE, patterns)
    \/ LoopStep

AutoInit == Init /\ auto_mode = TRUE

AutoSpec == AutoInit /\ [][AutoNext]_vars

\* Concurrent requests and callbacks against the controller
SessionNext ==
    \/ \E t \in RequestThreads :
          \/ \E am \in AutoModeArgs : RequestStart(t, am)
          \/ RequestStop(t)
    \/ \E c \in Calls : Callback(c)
    \/ MonitorCall
    \/ \E t \in Threads : StartStep(t) \/ StopStep(t)
    \/ LoopStep
    \/ Tick

SessionInit == Init /\ transport = "http" /\ ignored_patterns = <<>>

SessionSpec == SessionInit /\ [][SessionNext]_vars

\* One session, started in the first second, whose capture loop runs for several
\* intervals and is then stopped
CaptureNext ==
    \/ /\ n_requests < MaxJobs
       /\ \/ now = StartTime /\ RequestStart("r1", "None")
          \/ RequestStop("r1")
    \/ StartStep("r1")
    \/ StopStep("r1")
    \/ \E l \in LoopIds : \/ Bounded(l, MaxCaptures) /\ LoopCheck(l)
                          \/ \E ok \in BOOLEAN : LoopCapture(l, ok)
    \/ /\ pc["r1"] \notin {"st_enter", "st_mkdir"}
       /\ \E dt \in {interval - 1, interval} : Elapse(dt)

CaptureInit == SessionInit /\ auto_mode = FALSE

CaptureSpec == CaptureInit /\ [][CaptureNext]_vars

\* The steps the monitor thread takes by itself; a message or a close from the
\* peer is not one of them
TransportRun ==
    \/ WsHead
    \/ \E connected \in BOOLEAN : WsConnect(connected)
    \/ WsExcept
    \/ WsInner
    \/ LoopHead
    \/ LoopSleep

\* The monitor started and stopped, over each transport
TransportNext ==
    \/ \E use_mqtt, use_websocket \in BOOLEAN : MonitorStart(use_mqtt, use_websocket)
    \/ MonitorStop
    \/ MonitorJoin
    \/ TransportRun
    \/ \E received \in {"message", "unreadable", "closed"} : WsRecv(received)

TransportSpec == Init /\ [][TransportNext]_vars /\ WF_vars(TransportRun)

\* A create-video request against start and stop of capture
EncodeNext ==
    \/ \E am \in AutoModeArgs : RequestStart("r1", am)
    \/ RequestStop("r1")
    \/ StartStep("r1")
    \/ StopStep("r1")
    \/ \E s \in SessionIds : RequestCreateVideo("r2", SessionName(s))
    \/ VideoStep("r2")
    \/ LoopStep
    \/ Tick

EncodeSpec == SessionInit /\ [][EncodeNext]_vars

\* Video jobs on the sessions of an earlier run: create, read progress, time out,
\* cancel
VideoNext ==
    \/ \E t \in RequestThreads :
          \/ n_requests < MaxJobs /\ RequestCreateVideo(t, SessionName(StartTime))
          \/ VideoStep(t)
          \/ ReaderStep(t)
          \/ TimeoutStep(t)
    \/ /\ n_requests < MaxJobs
       /\ \E s \in {StartTime, StartTime + MaxTime} : RequestCancelVideo("r2", s)
    \/ CancelStep("r2")

VideoInit ==
    /\ InitState(StoredDisk)
    /\ transport = "http"
    /\ ignored_patterns = <<>>
    /\ auto_mode = FALSE
    /\ platform = "Linux"

VideoSpec == VideoInit /\ [][VideoNext]_vars

\* Requests for cameras, on each platform, with devices that fail
CameraStep(t) ==
    \/ GetCameraEnter(t)
    \/ \E opened \in BOOLEAN : GetCameraOpen(t, opened)
    \/ \E outcome \in {"ok", "fail", "raise"} : TryResolution(t, outcome)
    \/ ResolutionDefaults(t)
    \/ GetCameraStore(t)

CameraNext ==
    \/ \E t \in RequestThreads :
          \/ n_requests < MaxJobs /\ \E camera \in CameraArgs : RequestPreInit(t, camera)
          \/ CameraStep(t)
    \/ \E key \in CacheKeys : CameraFails(key)

CameraInit ==
    /\ InitState(EmptyDisk)
    /\ platform \in Platforms
    /\ transport = "http"
    /\ ignored_patterns = <<>>
    /\ auto_mode = FALSE

CameraSpec == CameraInit /\ [][CameraNext]_vars

\* Test captures through the cache while the sweep runs
SweepNext ==
    \/ \E t \in RequestThreads :
          \/ n_requests < MaxJobs /\ \E camera \in {NoCamera, IntId(MaxCamera)} :
                                        RequestCapture(t, camera)
          \/ CameraStep(t)
          \/ \E ok \in BOOLEAN : CaptureRead(t, ok)
    \/ \E key \in CacheKeys : CameraFails(key)
    \/ CleanupCameraCache
    \/ Idle

SweepInit == CameraInit /\ platform = "Linux"

SweepSpec == SweepInit /\ [][SweepNext]_vars

\* The network camera: added, read by two request threads, swept; the second
\* thread also opens a device, which holds camera_cache_lock over several steps
IpStep(t) ==
    \/ AddIpCamera(t)
    \/ RequestIpCapture(t)
    \/ \E ip_camera_url \in BOOLEAN : GetIpCamera(t, ip_camera_url)
    \/ IpCheck(t)
    \/ \E ok \in BOOLEAN : IpFetch(t, ok)

IpNext ==
    \/ \E t \in RequestThreads : IpStep(t)
    \/ RequestPreInit("r2", NoCamera)
    \/ CameraStep("r2")
    \/ CleanupCameraCache
    \/ Idle

IpInit == CameraInit /\ platform = "Linux"

IpSpec == IpInit /\ [][IpNext]_vars

\* Video jobs whose encoder can fail: create, time out, cancel, crash
JobNext ==
    \/ \E t \in RequestThreads :
          \/ n_requests < MaxJobs /\ RequestCreateVideo(t, SessionName(StartTime))
          \/ VideoStep(t)
          \/ TimeoutStep(t)
          \/ FailureStep(t)
    \/ /\ n_requests < MaxJobs
       /\ \E s \in {StartTime, StartTime + MaxTime} : RequestCancelVideo("r2", s)
    \/ CancelStep("r2")

JobSpec == VideoInit /\ [][JobNext]_vars

\* Everything that takes a lock, together: r1 starts and stops capture and makes
\* a video of the stored session; r2 opens a camera, sets the resolution, cancels
\* the video and runs cleanup; the capture loop and the sweep run alongside
LockNext ==
    \/ RequestStart("r1", "None")
    \/ RequestStop("r1")
    \/ RequestCreateVideo("r1", SessionName(StartTime))
    \/ \E t \in RequestThreads : StartStep(t) \/ StopStep(t)
    \/ VideoStep("r1")
    \/ ReadLine("r1", "stdout", MaxStored)
    \/ LoopStep
    \/ /\ cam["r2"] = NoCall
       /\ \/ RequestPreInit("r2", NoCamera)
          \/ RequestSetResolution("r2", default_resolution)
          \/ RequestCancelVideo("r2", StartTime)
    \/ RequestCleanup("r2")
    \/ GetCameraEnter("r2") \/ GetCameraOpen("r2", TRUE) \/ TryResolution("r2", "ok")
    \/ GetCameraStore("r2")
    \/ SetResolution("r2", DeviceDefault)
    \/ CancelStep("r2")
    \/ CleanupStopped("r2") \/ CleanupRegistry("r2") \/ CleanupCache("r2")
    \/ CleanupCameraCache
    \/ (\E k \in CacheKeys : camera_cache[k] # "absent") /\ Idle

LockInit == VideoInit

LockSpec == LockInit /\ [][LockNext]_vars

\* Video jobs one after another on the same session, the clock running
StampNext ==
    \/ n_requests < MaxJobs /\ RequestCreateVideo("r1", SessionName(StartTime))
    \/ VideoStep("r1")
    \/ TimeoutStep("r1")
    \/ FailureStep("r1")
    \/ n_requests < MaxJobs /\ RequestCancelVideo("r2", StartTime)
    \/ CancelStep("r2")
    \/ Tick

StampSpec == VideoInit /\ [][StampNext]_vars

\* Video jobs of both request threads that run to a timeout or to the end, with
\* the reader of the encoder output and a cancel alongside
TimeoutNext ==
    \/ \E t \in RequestThreads :
          \/ n_requests < MaxJobs /\ RequestCreateVideo(t, SessionName(StartTime))
          \/ VideoStep(t)
          \/ ReadLine(t, "stdout", MaxStored)
          \/ TimeoutStep(t)
    \/ n_requests < MaxJobs /\ RequestCancelVideo("r2", StartTime)
    \/ CancelStep("r2")

TimeoutSpec == VideoInit /\ [][TimeoutNext]_vars

\* Requests that name a session, with well-formed and malformed identifiers
IdNext ==
    \/ /\ n_requests < MaxJobs
       /\ \E session_id \in SessionIdArgs :
             \/ RequestCreateVideo("r1", session_id)
             \/ RequestDeleteSession("r1", session_id)
             \/ RequestFrames("r1", session_id)
    \/ VideoStep("r1")
    \/ ReaderStep("r1")
    \/ TimeoutStep("r1")
    \/ DeleteSession("r1")
    \/ GetSessionFrames("r1")

IdSpec == VideoInit /\ [][IdNext]_vars

\* One thread asking for cameras on Linux; a thread inside _get_camera keeps running
NegotiateNext ==
    \/ n_requests < MaxJobs /\ \E camera \in CameraArgs : RequestPreInit("r1", camera)
    \/ CameraStep("r1")
    \/ \E key \in CacheKeys : CameraFails(key)

NegotiateInit == CameraInit /\ platform = "Linux"

NegotiateSpec == NegotiateInit /\ [][NegotiateNext]_vars /\ WF_vars(CameraStep("r1"))

(***************************************************************************)
(* The activity state machine (activity_monitor.py)                        *)
(*                                                                         *)
(* ev describes the last transport event: whether a status was delivered   *)
(* to _handle_status_update (delivered), its running flag, file and ignore *)
(* verdict, last_activity_running and last_current_file before the event   *)
(* (prevRunning, prevFile) and on entry to _handle_status_update           *)
(* (entryRunning), the controller's is_capturing and auto_mode at the      *)
(* event, and the callbacks made (calls).  "Capture active", for the state *)
(* machine, is its previous running flag.                                  *)
(***************************************************************************)
Delivered == ev.delivered
FileChange ==
    /\ Delivered /\ ev.running /\ ~ev.ignored
    /\ ev.entryRunning /\ ev.prevAuto /\ ev.prevCapturing
    /\ ev.file # ev.prevFile

\* C1: a delivered status that is running, not ignored, arrives while capture is
\* active and names another file than the previous update, makes the monitor call
\* activity_stopped once and then activity_started once with the new file.
C1_FileChangeRestarts ==
    FileChange => ev.calls = <<StopCall, StartCall(ev.file)>>

\* C2: with auto mode enabled, once an update is fully processed the controller is
\* capturing if and only if that update was running and not ignored.
C2_CaptureIffRunning ==
    (MonitorIdle /\ Delivered) => (is_capturing <=> (ev.running /\ ~ev.ignored))

\* The law of C2 for the statuses the polling transport delivers.
CaptureIffRunning_Http ==
    transport = "http" => C2_CaptureIffRunning

\* C3: a delivered status that is not running makes the monitor call activity_stopped
\* once if capture was active and make no call otherwise, never activity_started,
\* and leaves last_current_file None and the running flag cleared.
C3_NotRunningRule ==
    (Delivered /\ ~ev.running) =>
        /\ ev.calls = (IF ev.entryRunning THEN <<StopCall>> ELSE <<>>)
        /\ last_current_file = None
        /\ ~last_activity_running

C3_Witness ==
    /\ Delivered /\ ~ev.running /\ ev.entryRunning /\ ev.prevCapturing
    /\ ev.prevFile # None
    /\ ev.calls = <<StopCall>>
    /\ MonitorIdle /\ ~is_capturing

\* C4: a delivered running status whose file matches an ignore rule never calls
\* activity_started, calls activity_stopped exactly when capture was active, leaves
\* the monitor not capturing and records the ignored file as the last file.
C4_IgnoredRule ==
    (Delivered /\ ev.running /\ ev.ignored) =>
        /\ ev.calls = (IF ev.entryRunning THEN <<StopCall>> ELSE <<>>)
        /\ ~last_activity_running
        /\ last_current_file = ev.file

C4_Witness ==
    /\ Delivered /\ ev.running /\ ev.ignored /\ ev.entryRunning /\ ev.prevCapturing
    /\ ev.calls = <<StopCall>>
    /\ last_current_file = ev.file
    /\ MonitorIdle /\ ~is_capturing

\* C5: a delivered running status with a file that is not ignored, while capture is
\* not active, calls activity_started exactly once with that file, and a session
\* the call starts records the file as its activity_file.
C5_StartRule ==
    (Delivered /\ ev.running /\ ~ev.ignored /\ ~ev.entryRunning) =>
        /\ ev.calls = <<StartCall(ev.file)>>
        /\ last_activity_running
        /\ (MonitorIdle /\ is_capturing /\ ~ev.prevCapturing) =>
               sessions[current_session_dir].activity_file = ev.file

\* the transition out of an ignored file: the previous update left an ignored file
C5_Witness ==
    /\ Delivered /\ ev.running /\ ~ev.ignored /\ ~ev.entryRunning
    /\ is_ignored_activity(ignored_patterns, ev.prevFile)
    /\ ev.calls = <<StartCall(ev.file)>>
    /\ MonitorIdle /\ is_capturing
    /\ sessions[current_session_dir].activity_file = ev.file

\* C6: over MQTT a running signal alone delivers no status; the file name that
\* follows it delivers one status {running, file}, and when that file is not
\* ignored and the controller is not capturing, activity_started is called with it.
C6_MqttStartsOnFile ==
    /\ ev.kind = "mqtt_running" => (~Delivered /\ ev.calls = <<>>)
    /\ (ev.kind = "mqtt_pattern" /\ ev.prevRunning) =>
           /\ Delivered /\ ev.running
           /\ (~ev.ignored /\ ~ev.prevCapturing) => ev.calls = <<StartCall(ev.file)>>

\* C7: over MQTT a not-running signal is delivered at once as a status that is not
\* running, and when capture was active at that moment activity_stopped is called
\* exactly once.
C7_MqttStopsOnNotRunning ==
    ev.kind = "mqtt_not_running" =>
        /\ Delivered /\ ~ev.running
        /\ ev.prevRunning => ev.calls = <<StopCall>>

(***************************************************************************)
(* The capture-session lifecycle (webcam_controller.py, app.py)            *)
(***************************************************************************)
InLifecycle(t) == pc[t] \in {"st_mkdir", "st_run", "sp_final", "sp_clear", "sp_join"}

\* C8: start_timelapse and stop_timelapse are serialized by the one lock: at most
\* one thread is inside either and it holds the lock; no two starts succeed without
\* a stop between them, so at most one session is capturing.
C8_Serialized ==
    /\ \A t, u \in Threads : (InLifecycle(t) /\ InLifecycle(u)) => t = u
    /\ \A t \in Threads : InLifecycle(t) => lock = t
    /\ n_active \in {0, 1}
    /\ lock = "free" => (n_active = 1 <=> is_capturing)

\* two concurrent starts on an idle controller: one has won, the other has returned
C8_Witness ==
    /\ \E t, u \in Threads :
          /\ t # u
          /\ pc[t] = "st_run"
          /\ pc[u] = "st_enter"
    /\ ~is_capturing

\* C9: activity_started made while capturing, and activity_stopped made while idle,
\* return at once and change nothing of the controller (is_capturing, the current
\* session, the sessions and their frames, the capture thread); no later step of
\* such a call changes it either; and start_timelapse while capturing and
\* stop_timelapse while idle return without changing it.
C9_CallbacksIdempotent ==
    [][ /\ (pc[MonitorThread] = "idle" /\ pending # <<>> /\ pending' = Tail(pending)
              /\ (Head(pending).op = "activity_started" <=> is_capturing))
            => (pc'[MonitorThread] = "idle" /\ UNCHANGED <<controllerVars, lock, loops>>)
        /\ (pc'[MonitorThread] # pc[MonitorThread] /\ arg[MonitorThread].noop)
            => UNCHANGED controllerVars
        /\ \A t \in Threads :
              /\ (pc[t] = "st_enter" /\ pc'[t] # "st_enter" /\ is_capturing)
                    => (pc'[t] = "idle" /\ UNCHANGED <<controllerVars, lock, loops>>)
              /\ (pc[t] = "sp_enter" /\ pc'[t] # "sp_enter" /\ ~is_capturing)
                    => (pc'[t] = "idle" /\ UNCHANGED <<controllerVars, lock, loops>>)
      ]_vars

C9_Witness ==
    /\ pc[MonitorThread] = "idle"
    /\ pending # <<>>
    /\ Head(pending).op = "activity_started"
    /\ auto_mode
    /\ is_capturing

\* C10: a create-video request for the session that is being captured is rejected,
\* and no encoder process is started for a session that is the capturing one.
C10_NoEncoderForActiveSession ==
    [][\A t \in RequestThreads :
          /\ (pc[t] = "cv_check" /\ pc'[t] # "cv_check"
                /\ arg[t].session_id = current_session_dir /\ is_capturing)
                => pc'[t] = "idle"
          /\ (pc[t] = "cv_spawn" /\ pc'[t] = "cv_wait")
                => ~(is_capturing /\ current_session_dir = arg[t].session_id)]_vars

(***************************************************************************)
(* Video jobs (webcam_controller.py create_video, cancel_video)            *)
(***************************************************************************)
Job(t) == arg[t].job
JobDir(t) == arg[t].session_id

\* C11: at most one video job per session id at a time: while the encoder of one
\* create_video for a session id runs, a second create_video for that id starts no
\* second encoder.
C11_OneJobPerSession ==
    \A t, u \in RequestThreads :
        (proc[t] = "running" /\ proc[u] = "running" /\ JobDir(t) = JobDir(u)) => t = u

\* C12: between two successive records of one job that both say processing the
\* progress does not decrease, and progress 100 is written only with completed.
C12_ProgressMonotone ==
    [][\A s \in Dirs :
          /\ (/\ status_file[s].status = "processing"
              /\ status_file'[s].status = "processing"
              /\ status_file'[s].job = status_file[s].job)
                => status_file'[s].progress >= status_file[s].progress
          /\ status_file'[s].progress = 100 => status_file'[s].status = "completed"
      ]_vars

\* C13: once the record of a job says completed, failed or cancelled, no later write
\* of that job replaces it with another status.
C13_TerminalKept ==
    [][\A s \in Dirs :
          (status_file[s].status \in Terminal /\ status_file'[s].job = status_file[s].job)
              => status_file'[s].status = status_file[s].status]_vars

\* C14: cancel_video on a session whose encoder is running marks the job cancelled,
\* terminates the process and returns True, and the job then ends with the record
\* saying cancelled and create_video returning the cancelled result, not success.
C14_CancelEndsCancelled ==
    [][\A t \in RequestThreads :
          /\ (/\ pc[t] = "cn_enter" /\ pc'[t] # "cn_enter"
              /\ ffmpeg_processes[JobDir(t)] # NoEntry
              /\ proc[ffmpeg_processes[JobDir(t)].process] = "running")
                => /\ pc'[t] = "cn_finish"
                   /\ ffmpeg_processes'[JobDir(t)].cancelled
                   /\ proc'[ffmpeg_processes[JobDir(t)].process] = "cancelled"
          /\ (pc[t] = "cn_finish" /\ pc'[t] = "idle")
                => /\ ret'[t] = Result("cancel_video", "True")
                   /\ status_file'[JobDir(t)].status = "cancelled"
          /\ (proc[t] = "cancelled" /\ pc[t] # "idle" /\ pc'[t] = "idle")
                => /\ ret'[t] = Result("create_video", "cancelled")
                   /\ status_file'[JobDir(t)].status = "cancelled"
      ]_vars

NoActiveProcess(s) ==
    \/ ffmpeg_processes[s] = NoEntry
    \/ proc[ffmpeg_processes[s].process] # "running"

C16_TimeoutFails ==
    [][\A t \in RequestThreads :
          /\ (pc[t] = "cv_wait" /\ proc[t] = "running" /\ pc'[t] # "cv_wait")
                => /\ pc'[t] = "cv_tclean"
                   /\ proc'[t] = "killed"
                   /\ status_file'[JobDir(t)] =
                         Record("failed", 0, Job(t), status_file'[JobDir(t)].start_time)
          /\ (pc[t] = "cv_tclean" /\ pc'[t] # "cv_tclean")
                => /\ ffmpeg_processes'[JobDir(t)] = NoEntry
                   /\ proc'[t] = "none"
                   /\ ret'[t] = Result("create_video", "False")
      ]_vars

\* a job that timed out has returned: record failed, no registry entry
C16_Witness ==
    \E t \in RequestThreads :
        /\ pc[t] = "idle"
        /\ ret[t] = Result("create_video", "False")
        /\ status_file[StartTime].status = "failed"
        /\ ffmpeg_processes[StartTime] = NoEntry
        /\ n_requests = 1

(***************************************************************************)
(* The camera cache                                                        *)
(***************************************************************************)
\* The forms in which device n is named: its index, the index as a string,
\* "index:name", and on Linux the device path
FormsOf(n, plat) ==
    { IntId(n), StrId(str(n)), StrId(str(n) \o <<":">> \o CameraName) }
        \cup (IF plat = "Linux" THEN { StrId(DevVideo \o str(n)) } ELSE {})

\* C17: no device ever has two opened handles, whatever the interleaving of the
\* acquires, and a call made with any form of the identifier of device n works
\* on the cache key of n.
C17_OneHandlePerCamera ==
    /\ \A d \in Cameras : handles[d] <= 1
    /\ \A t \in RequestThreads, n \in Cameras :
          cam[t].camera \in FormsOf(n, platform)
              => cache_key(cam[t].camera_index) = cache_key(n)

\* Two calls with different forms of one device are in progress: one has opened
\* the device and is about to cache the handle, the other waits for the cache
C17_Witness ==
    \E n \in Cameras :
        /\ n > 0
        /\ cam["r1"].camera \in FormsOf(n, platform)
        /\ cam["r2"].camera \in FormsOf(n, platform)
        /\ cam["r1"].camera.type = "int"
        /\ cam["r2"].camera.type = "str"
        /\ pc["r1"] = "gc_store"
        /\ pc["r2"] = "gc_enter"
        /\ handles[n] = 1

(***************************************************************************)
(* Resolution negotiation                                                  *)
(***************************************************************************)
Negotiating(t) == pc[t] = "gc_res"

C19_MissingKeyNotRunning ==
    (Delivered /\ ev.missing) =>
        /\ ~ev.running
        /\ ev.calls = (IF ev.entryRunning THEN <<StopCall>> ELSE <<>>)
        /\ last_current_file = None
        /\ ~last_activity_running

\* A payload with a file but no running key has arrived during an activity, and
\* the capture it stopped is over
C19_Witness ==
    /\ Delivered /\ ev.missing /\ ev.file # None
    /\ ev.entryRunning /\ ev.prevCapturing /\ ev.prevFile # None
    /\ ev.calls = <<StopCall>>
    /\ MonitorIdle /\ ~is_capturing

(***************************************************************************)
(* Session identifiers                                                     *)
(***************************************************************************)
Rejections == {"False", "[]"}

\* C20: an operation called with a session identifier that is empty, has a ".."
\* component or lacks the timelapse_ prefix ends at its first step, with a result
\* that reports nothing found or done, and that step changes no directory, no
\* status file and no encoder process.
C20_InvalidIdRejected ==
    [][\A t \in RequestThreads :
          (pc[t] # "idle" /\ arg[t].raw # None /\ ~valid_session_id(arg[t].raw)
              /\ pc'[t] # pc[t])
          => /\ pc'[t] = "idle"
             /\ ret'[t].value \in Rejections
             /\ UNCHANGED <<sessions, status_file, ffmpeg_processes, proc>>]_vars

(***************************************************************************)
(* The end of a video job                                                  *)
(***************************************************************************)
AfterSpawn == {"cv_wait", "cv_cleanup", "cv_complete", "cv_tclean"}

\* C21: a step that writes the record completed, 100 of a job, or that ends
\* create_video with the success result, is taken only when the encoder of that
\* job has exited with status 0.
C21_CompletedOnlyOnSuccess ==
    [][\A t \in RequestThreads :
          (/\ pc[t] \in AfterSpawn
           /\ \/ /\ status_file'[JobDir(t)] =
                       Record("completed", 100, Job(t), status_file'[JobDir(t)].start_time)
                 /\ status_file[JobDir(t)] #
                       Record("completed", 100, Job(t), status_file[JobDir(t)].start_time)
              \/ /\ pc'[t] = "idle"
                 /\ ret'[t] = Result("create_video", "success"))
          => proc[t] = "exited"]_vars

\* C22: at the step by which create_video returns after it has started the
\* encoder, its process is not running any more, the frame list of the directory
\* is gone and no registry entry belongs to the job; and an entry of a job comes
\* into the registry only at the step that starts the job's encoder, so that it
\* leaves the registry once.
C22_CleanupOnReturn ==
    [][/\ \A t \in RequestThreads :
             (pc[t] \in AfterSpawn /\ pc'[t] = "idle") =>
                 /\ proc'[t] = "none"
                 /\ ~temp_list_file'[JobDir(t)]
                 /\ \A s \in Dirs : ffmpeg_processes'[s].job # Job(t)
       /\ \A s \in Dirs :
             (ffmpeg_processes'[s].job # 0
                 /\ ffmpeg_processes'[s].job # ffmpeg_processes[s].job) =>
                 \E t \in RequestThreads :
                     /\ pc[t] = "cv_spawn" /\ pc'[t] = "cv_wait"
                     /\ Job(t) = ffmpeg_processes'[s].job]_vars

\* create_video has returned False after an error thrown while its encoder was
\* running: the record is still the first one, nothing of the job is left
C22_Witness ==
    /\ pc["r1"] = "idle"
    /\ ret["r1"] = Result("create_video", "False")
    /\ status_file[StartTime].status = "starting"
    /\ proc["r1"] = "none"
    /\ ffmpeg_processes[StartTime] = NoEntry
    /\ ~temp_list_file[StartTime]
    /\ n_requests = 1

(***************************************************************************)
(* The cache sweep                                                         *)
(***************************************************************************)
\* C23: the sweep never releases a cached handle while a capture call that got the
\* handle from _get_camera is still reading through it
C23_NoReleaseWhileReading ==
    \A t \in RequestThreads : pc[t] = "cs_read" => ~cam[t].released

(***************************************************************************)
(* The recorded resolution and the candidate list                          *)
(***************************************************************************)
\* C24: when the negotiation ends on a candidate whose test read gave a frame, the
\* recorded resolution is the size the device reported for that candidate
C24_RecordedIsReported ==
    [][ \A t \in RequestThreads :
           Negotiating(t) /\ ~Negotiating(t)' /\ cam'[t].first_ok # 0
               => camera_settings' = camera_dims'[cam[t].camera_index] ]_vars

\* The resolution _get_camera asks for (line 529)
Requested == IF camera_settings = NoResolution THEN default_resolution ELSE camera_settings

\* C25: the candidates start with the requested resolution, hold no resolution
\* twice, and go on with 1920x1080, 1280x720, 800x600, 640x480 in that order,
\* the requested one left out
C25_CandidateList ==
    [][ \A t \in RequestThreads :
           ~Negotiating(t) /\ Negotiating(t)' =>
               LET c == cam'[t].candidates
                   standard == << <<1920, 1080>>, <<1280, 720>>, <<800, 600>>, <<640, 480>> >>
                   rest == [i \in 1 .. (Len(c) - 1) |-> c[i + 1]]
                   Pos(r) == CHOOSE i \in 1 .. Len(standard) : standard[i] = r
               IN  /\ Len(c) >= 1
                   /\ c[1] = Requested
                   /\ \A i, j \in 1 .. Len(c) : i # j => c[i] # c[j]
                   /\ {rest[i] : i \in 1 .. Len(rest)}
                          = {standard[i] : i \in 1 .. Len(standard)} \ {Requested}
                   /\ \A i, j \in 1 .. Len(rest) : i < j => Pos(rest[i]) < Pos(rest[j]) ]_vars

\* A negotiation for a resolution that is not in the standard list is under way:
\* five candidates, and the second call of the run
C25_Witness ==
    /\ Negotiating("r1")
    /\ Len(cam["r1"].candidates) = 5
    /\ cam["r1"].candidates[1] = DeviceDefault
    /\ cam["r1"].candidates[2] = <<1920, 1080>>
    /\ cam["r1"].tried = 0

(***************************************************************************)
(* The capture loop and the final frame                                    *)
(***************************************************************************)
\* C26: a capture of the loop begins only when at least the interval has passed
\* since the one before began, also after a capture that was slow or failed; one
\* check starts one capture, and last_capture_time becomes the current time
C26_CapturesSpaced ==
    [][ \A l \in LoopIds :
           loops[l].pc = "check" /\ loops'[l].pc = "capture" =>
               /\ loops'[l].frame_count = loops[l].frame_count + 1
               /\ loops'[l].out_ts - loops[l].last_capture_time >= interval
               /\ loops'[l].last_capture_time = now
               /\ loops'[l].out_ts = now ]_vars

\* The second capture of a loop begins two intervals after the first
C26_Witness ==
    \E l \in LoopIds :
        /\ loops[l].pc = "capture"
        /\ loops[l].frame_count = 2
        /\ loops[l].last_capture_time = StartTime + 2 * interval

\* C27: a stop_timelapse that finds the session capturing makes one final capture,
\* with fast_mode False, before is_capturing is cleared, and makes no other; it
\* returns True with is_capturing False whether that capture gave a frame or not
C27_StopCapturesOnce ==
    [][ \A t \in Threads :
           /\ pc[t] = "sp_enter" /\ pc'[t] # "sp_enter" /\ is_capturing
                 => pc'[t] = "sp_final" /\ arg'[t].finals = <<>>
           /\ pc[t] = "sp_final" /\ pc'[t] # "sp_final"
                 => /\ pc'[t] = "sp_clear"
                    /\ Len(arg'[t].finals) = 1
                    /\ ~arg'[t].finals[1].fast_mode
                    /\ is_capturing'
           /\ pc[t] = "sp_clear" /\ pc'[t] # "sp_clear"
                 => pc'[t] = "sp_join" /\ ~is_capturing' /\ arg'[t].finals = arg[t].finals
           /\ pc[t] = "sp_join" /\ pc'[t] # "sp_join"
                 => /\ pc'[t] = "idle"
                    /\ Len(arg[t].finals) = 1
                    /\ ret'[t] = Result("stop_timelapse", "True")
                    /\ ~is_capturing' ]_vars

\* A stop whose final capture gave no frame has returned True, and the session is
\* idle
C27_Witness ==
    /\ pc["r1"] = "idle"
    /\ ret["r1"] = Result("stop_timelapse", "True")
    /\ ~is_capturing
    /\ sessions[StartTime].exists
    /\ \A f \in sessions[StartTime].frames : ~f.final
    /\ n_requests = 2

\* C28: a frame written into a session directory, the final frame of a stop
\* included, has a sequence number greater than that of every frame the
\* directory already holds
C28_FrameNumbersIncrease ==
    [][ \A d \in SessionIds :
           \A f \in sessions'[d].frames \ sessions[d].frames :
               \A g \in sessions[d].frames : f.n > g.n ]_vars

(***************************************************************************)
(* The transport loops                                                     *)
(***************************************************************************)
\* C29: the streaming loop makes a connection attempt only when the reconnect
\* delay has been waited since the last loss of the connection, whether the peer
\* closed it or it failed with an error, and it ends only when stop is requested
C29_DelayBeforeReconnect ==
    [][ monitor_thread.target = "_run_websocket_loop" =>
           /\ monitor_thread.pc = "head" /\ monitor_thread'.pc = "connect"
                 => ~monitor_thread.lost
           /\ monitor_thread.alive /\ ~monitor_thread'.alive => stop_event ]_vars

\* C30: a transport loop ends only when stop has been requested, and once stop()
\* has set the event the loop that runs ends, also when the peer stays silent
C30_StopEndsLoop ==
    /\ [][monitor_thread.alive /\ ~monitor_thread'.alive => stop_event]_vars
    /\ (monitor_thread.alive /\ stop_event) ~> ~monitor_thread.alive

(***************************************************************************)
(* Polls that fail                                                         *)
(***************************************************************************)
\* C31: a poll that gives no status delivers nothing to the state machine: the
\* running flag, the last file, the callbacks to make and the capture state are
\* as before, and the monitor is where it was, ready for the next poll
C31_FailedPollSkipped ==
    [][ ev'.skipped # ev.skipped =>
           /\ ~ev'.delivered
           /\ ev'.calls = <<>>
           /\ UNCHANGED <<last_activity_running, last_current_file, pending>>
           /\ UNCHANGED controllerVars
           /\ UNCHANGED <<loops, pc, lock>> ]_vars

\* With capture active and a file remembered, a poll has failed, and the poll after
\* it has delivered a running status that is being acted on as usual
C31_Witness ==
    /\ ev.skipped = 1
    /\ ev.delivered
    /\ ev.running
    /\ ev.prevRunning
    /\ ev.prevCapturing
    /\ ev.prevFile # None
    /\ is_capturing
    /\ n_events = 3

(***************************************************************************)
(* Failures inside the capture loop                                        *)
(***************************************************************************)
\* C32: a capture of the loop that ends, with a frame or with a failure, leaves the
\* loop running and is_capturing as it was, and a loop ends only once
\* is_capturing has been cleared
C32_LoopSurvivesFailure ==
    [][ \A l \in LoopIds :
           /\ loops[l].pc = "capture" /\ loops'[l] # loops[l]
                 => /\ loops'[l].alive
                    /\ loops'[l].pc = "check"
                    /\ loops'[l].frame_count = loops[l].frame_count
                    /\ loops'[l].last_capture_time = loops[l].last_capture_time
                    /\ is_capturing' = is_capturing
           /\ loops[l].alive /\ ~loops'[l].alive => ~is_capturing ]_vars

\* The first capture of the loop has failed and left no file, capture is still
\* active, and an interval later the loop is making its second attempt
C32_Witness ==
    \E l \in LoopIds :
        /\ is_capturing
        /\ loops[l].alive
        /\ loops[l].pc = "capture"
        /\ loops[l].frame_count = 2
        /\ loops[l].out_dir = StartTime
        /\ sessions[StartTime].frames = {}

\* A step inserts or removes a key of camera_cache, or changes the fields of the
\* network camera's handle in it
CacheMutated ==
    \/ \E k \in CacheKeys : (camera_cache'[k] = "absent") # (camera_cache[k] = "absent")
    \/ ip_camera'.cached # ip_camera.cached
    \/ ip_camera'.last_frame # ip_camera.last_frame
    \/ ip_camera'.last_frame_time # ip_camera.last_frame_time

\* C33: the camera cache and the handles in it are mutated only by a thread that
\* holds camera_cache_lock: a step that mutates them is taken while nobody holds
\* the lock (a whole with-block) or by the thread that holds it
C33_MutatedUnderCacheLock ==
    [][CacheMutated =>
          \/ camera_cache_lock = "free"
          \/ pc'[camera_cache_lock] # pc[camera_cache_lock]]_vars

\* C34: a reader of the network camera that comes within the window of a stored
\* frame is served that frame and sends no request, and a reader sends a request
\* only when no other reader has one in flight that was sent in the same window
C34_WindowSharesOneRequest ==
    [][/\ \A t \in RequestThreads :
             (pc[t] = "ip_check" /\ pc'[t] # "ip_check"
                /\ ~cam[t].released /\ Recent(ip_camera, now))
             => /\ ip_camera'.requests = ip_camera.requests
                /\ ret'[t] = Result("capture_single_frame", "True")
       /\ ip_camera'.requests # ip_camera.requests
             => ~\E u \in RequestThreads :
                     pc[u] = "ip_fetch" /\ now - cam[u].current_time < 1]_vars

\* C35: every status record written during a video job carries that job's own
\* start_time: the record of a job in flight has the time at which the job began
C35_RecordHasJobStartTime ==
    \A t \in RequestThreads : \A s \in Dirs :
        (status_file[s].job # 0 /\ status_file[s].job = arg[t].job)
            => status_file[s].start_time = arg[t].start_time

\* C36: at any time at most one _capture_loop thread of the controller is running
C36_OneCaptureLoop == Cardinality({l \in LoopIds : loops[l].alive}) <= 1

\* C37: when the monitor has finished processing a delivered status update, its
\* callbacks returned, last_activity_running agrees with the controller's
\* is_capturing
C37_RecordAgreesWithCapture ==
    [][(/\ MonitorIdle'
        /\ ev'.delivered
        /\ ~MonitorIdle \/ n_events' # n_events)
          => (last_activity_running' <=> is_capturing')]_vars

\* C38: every successful start_timelapse gets a session directory of its own: the
\* directory it names does not exist yet when it is made
C38_SessionIdsDistinct ==
    [][\A t \in Threads :
          (pc[t] = "st_mkdir" /\ pc'[t] = "st_run")
              => ~sessions[current_session_dir'].exists]_vars

\* C39: after start() has returned and until stop() is next called, the monitor
\* thread is alive and its stop signal is cleared
C39_StartedLoopRuns ==
    monitor_thread.started => (monitor_thread.alive /\ ~stop_event)

\* The four locks: self.lock, self.camera_cache_lock, self.ffmpeg_processes_lock
\* and the status_lock of a create_video call, in the order in which the code
\* nests them
LockOrder == <<"lock", "camera_cache_lock", "ffmpeg_processes_lock", "status_lock">>
Rank(l) == CHOOSE i \in 1 .. Len(LockOrder) : LockOrder[i] = l
\* status_lock is taken and released inside write_progress_data, within one step
Holder(l) ==
    IF l = "lock" THEN lock
    ELSE IF l = "camera_cache_lock" THEN camera_cache_lock
    ELSE IF l = "ffmpeg_processes_lock" THEN ffmpeg_processes_lock
    ELSE "free"
Held(t) == {l \in {LockOrder[i] : i \in 1 .. Len(LockOrder)} : Holder(l) = t}
\* The locks the next step of a thread at position p takes, outermost first:
\* lines 247 and 292; 309 (the final capture, down to line 469); 469, 1464, 1427;
\* 860; 910; 989-997; 1021, 1028, 1054, 1095; 1116; 1143-1145; 1401
Takes(p) ==
    IF p \in {"st_enter", "sp_enter"} THEN <<"lock">>
    ELSE IF p \in {"sp_final", "gc_enter", "ip_get", "sr_enter", "cl_cache"}
    THEN <<"camera_cache_lock">>
    ELSE IF p \in {"cv_frames", "cn_finish"} THEN <<"status_lock">>
    ELSE IF p \in {"cv_spawn", "cv_tclean", "cv_cleanup", "cn_enter", "cl_registry"}
    THEN <<"ffmpeg_processes_lock">>
    ELSE IF p \in {"cv_wait", "cv_complete"}
    THEN <<"ffmpeg_processes_lock", "status_lock">>
    ELSE <<>>
\* The threads that hold a lock the next step of t takes
WaitsFor(t) == {Holder(Takes(pc[t])[i]) : i \in 1 .. Len(Takes(pc[t]))} \ {"free"}
\* The threads whose next step waits for nobody, and those that wait only for
\* such threads, and so on: whoever is outside waits in a cycle
RECURSIVE CanRun(_)
CanRun(n) ==
    IF n = 0 THEN {t \in Threads : WaitsFor(t) = {}}
    ELSE LET R == CanRun(n - 1) IN R \cup {t \in Threads : WaitsFor(t) \subseteq R}
\* The steps that are no new request
LockMoves ==
    \/ \E t \in RequestThreads : StartStep(t) \/ StopStep(t)
    \/ VideoStep("r1")
    \/ LoopStep
    \/ GetCameraEnter("r2") \/ GetCameraOpen("r2", TRUE) \/ TryResolution("r2", "ok")
    \/ GetCameraStore("r2")
    \/ SetResolution("r2", DeviceDefault)
    \/ CancelStep("r2")
    \/ CleanupStopped("r2") \/ CleanupRegistry("r2") \/ CleanupCache("r2")

\* C40: no interleaving reaches a deadlock: a thread takes a lock only of a higher
\* rank than every lock it holds (session, cache, registry, status) and never one
\* it holds; no threads wait for each other in a cycle; no lock is left held by a
\* thread that has returned; and while a thread is inside an operation some step
\* can be taken
C40_NoDeadlock ==
    /\ \A t \in Threads :
          LET w == Takes(pc[t])
          IN  \A i \in 1 .. Len(w) :
                 /\ w[i] \notin Held(t)
                 /\ \A h \in Held(t) : Rank(h) < Rank(w[i])
                 /\ \A j \in 1 .. i - 1 : Rank(w[j]) < Rank(w[i])
    /\ CanRun(Cardinality(Threads)) = Threads
    /\ \A i \in 1 .. Len(LockOrder) :
          Holder(LockOrder[i]) # "free" => pc[Holder(LockOrder[i])] # "idle"
    /\ (\E t \in Threads : pc[t] # "idle") => ENABLED LockMoves

\* stop_timelapse holds the session lock and waits at its final capture for the
\* cache lock, which a thread opening a camera holds
C40_Witness ==
    /\ pc["r1"] = "sp_final"
    /\ lock = "r1"
    /\ camera_cache_lock = "r2"
====
